---- MODULE Spec2Model ----
(***************************************************************************)
(* Model of the Glasgow jtag_pdi applet: the TAP driver and PDI controller *)
(* of interactive.py with the command protocol adapter, the observer TAP   *)
(* of sniffer.py, and the host-side helpers of __init__.py.                *)
(*                                                                         *)
(* Gateware is modelled at the level of the "sync" clock: one Tick is one  *)
(* rising edge of the system clock, every register takes its next value    *)
(* at once, and combinational signals are operators over the current       *)
(* state.  A register of n bits whose bit pattern matters is a sequence of *)
(* n bits, index 1 holding bit 0.                                          *)
(***************************************************************************)
EXTENDS Integers, Sequences, FiniteSets, TLC

\* ---------------------------------------------------------------- bounds
\* Half a TCK period in system clocks (period_cyc // 2 of JTAGTAP).
HalfCyc == 3
\* Bytes the host may have queued towards the adapter (out_fifo occupancy).
MaxOutFifo == 2
\* Steps of the observer TAP whose TMS bits are recorded from power-up.
MaxTrace == 8
\* Largest repeat count given to the host-side count decode.
MaxRep == 3
\* tmsHighRun counts consecutive TMS-high steps up to here
MaxRun == 5
\* resetRun counts Reset requests answered in a row up to here
MaxResets == 2
\* Requests (header bytes) the host sends in a run.
MaxRequests == 3
\* Units the observer codec is fed in a run, and how many of them may come
\* with a flipped bit.
MaxUnits == 7
MaxFlips == 1
\* Identification captures in a run of the observer codec.
MaxIds == 1

\* Scans the bench on the observer's pins starts in a run.
MaxOps == 4
\* Steps in SHIFT-DR the record of a scan counts up to.
MaxShift == 33

\* ------------------------------------------------------------ enumerations
\* TAPInstruction
TAP_idCode == 3
TAP_pdiCom == 7
TAP_bypass == 15

\* PDIOpcodes
OP_LDS == 0
OP_LD == 1
OP_STS == 2
OP_ST == 3
OP_LDCS == 4
OP_REPEAT == 5
OP_STCS == 6
OP_KEY == 7
OP_IDLE == 15

\* Header
HDR_IDCode == 16
HDR_PDI == 17
HDR_Reset == 30
HDR_Error == 31

\* ---------------------------------------------------------------- helpers
Bit(n, i) == (n \div (2 ^ i)) % 2

\* Signal.xor() of an 8 bit value: the XOR of its bits.
Xor8(b) == (Bit(b, 0) + Bit(b, 1) + Bit(b, 2) + Bit(b, 3)
            + Bit(b, 4) + Bit(b, 5) + Bit(b, 6) + Bit(b, 7)) % 2

\* The unit without its parity: bit 8 always 0.
UnitBad(b) == b

\* Cat(byte, byte.xor()): the 9 bit unit, parity in bit 8.
Unit(b) == b + 256 * Xor8(b)

\* The value of a sequence of bits, index 1 the least significant.
RECURSIVE BitsToNat(_)
BitsToNat(s) == IF s = <<>> THEN 0 ELSE Head(s) + 2 * BitsToNat(Tail(s))

\* The w low bits of n, index 1 the least significant.
NatToBits(n, w) == [i \in 1..w |-> Bit(n, i - 1)]

Zeros(w) == [i \in 1..w |-> 0]

\* value[lo:hi] of a register held as a bit sequence.
Slice(s, lo, hi) == SubSeq(s, lo + 1, hi)

\* ------------------------------------------------------------------ state
VARIABLES
    \* observer TAP (sniffer.py JTAGTAP), clocked by TCK
    snState, snShiftDR, snShiftIR, snInsn, snInsnNext,
    \* what the observer's run has shown so far: the state before the last
    \* TCK edge and the TMS bit sampled at it, the TMS bits since power-up
    \* and the visits to UPDATE-IR and UPDATE-DR they caused
    snPrev, snTms, snTrace, snVisIR, snVisDR,
    \* observer TAP: the two 32 bit shift registers (bit sequences, index 1
    \* the least significant), the values it publishes, and whether the TAP
    \* has seen no UPDATE-IR since it last was in RESET
    snDataIn, snDataOut, snIdCode, snPdiDataIn, snPdiDataOut, snFresh,
    \* the bench driving the observer's pins (sim-sniffer.py): the pin values
    \* of the clock edges still to come, the scans started and the last one
    hsQueue, hsOps, hsLast,
    \* the interactive session (__init__.py _interactive_prompt): where it
    \* is, the line it read, __repeatCount, what _parse_command returned for
    \* the line, what the session wrote to the device for it, the headers it
    \* wrote so far, the reset status it read, the decoded identification
    \* value and the last message it logged
    cliPhase, cliLine, cliRepeat, cliCommand, cliWritten, cliHeaders,
    cliStatus, cliIdCode, cliLog,
    \* meta.py decode_device_id_code: its argument and its result
    idPhase, idBytes, idInfo,
    \* the stream decoder (__init__.py _write_pdi_vcd): its locals, the byte
    \* it took last and the count bytes of the REPEAT it is reading
    vcd, vcdByte, vcdTaken,
    \* host-side count decode (__init__.py _decode_counts): inputs, result
    dcInsn, dcArgs, dcRep, dcResult,
    \* interactive.py JTAGTAP: the tck FSM and the bus registers
    tckState, tckTimer, mayUpdate, busTms, busTdo, tdiReg,
    \* interactive.py JTAGTAP: the jtag FSM and its registers
    jtagState, resetTimer, insn, insnNext, insnCounter,
    dataIn, dataOut, dataCounter, idCode, tapDataIn,
    \* interactive.py PDIController: the pdi and insn FSMs and their registers
    pdiState, insnState, tapIssue, tapDataOut, newCommand, needData,
    readCount, writeCount, repCount, repeatData,
    \* interactive.py JTAGPDIInteractiveSubtarget: the adapter FSM
    adState, header, resetIssue, idCodeIssue, pdiIssue, pdiCmd, pdiDataOut,
    \* the FIFOs: bytes the host has queued and the adapter has not taken,
    \* and the bytes the adapter wrote back since it took the last header
    out_fifo, in_fifo,
    \* the target on the bus: its TAP state, instruction and shift registers
    tgtState, tgtInsn, tgtIR, tgtDR, tgtId,
    \* what the driver's run has shown so far
    tmsHighRun, txByte, txBytes, txNeeds, txIssued, txScans, busUnit,
    resetRun, firstResetInsn,
    \* the driver's scan under way: the jtag FSM's steps in SHIFT-DR, the
    \* <<TMS, TDO>> pairs of its steps in SHIFT-IR, and the state its last
    \* step was taken in
    shiftSteps, irBits, lastStep,
    \* the host: what it writes next, the data bytes it still owes the
    \* request it is writing, and the requests it has sent
    hostPhase, hostOwes, hostSent,
    \* sniffer.py PDIDissector: the pdi and insn FSMs and their registers
    dsState, dsInsnState, dsOpcode, dsArgs, dsData, dsReadCount, dsWriteCount,
    dsRepCount, dsNewCommand, dsUpdateCountsNext, dsRepeatData,
    dsDataIn, dsDataOut,
    \* sniffer.py JTAGPDISnifferSubtarget: its FSM and the bytes it wrote to
    \* the FIFO for the last unit
    sfState, sfStream,
    \* what the observer codec's run has shown so far
    obUnits, obOp, obHeld, obWritten, obReads, obErrs, obAborted, obAfterErr,
    obError, obFlips, obDone, obKind, obIds, obRearmed, obMiscount,
    \* the host's repeat count on its way to the stream decoder and back
    rtSize, rtValue, rtPhase, rtBytes, rtSent, rtAcc, rtCount, rtTwice

snVars == <<snState, snShiftDR, snShiftIR, snInsn, snInsnNext,
            snPrev, snTms, snTrace, snVisIR, snVisDR,
            snDataIn, snDataOut, snIdCode, snPdiDataIn, snPdiDataOut, snFresh>>
hsVars == <<hsQueue, hsOps, hsLast>>
cliVars == <<cliPhase, cliLine, cliRepeat, cliCommand, cliWritten, cliHeaders,
             cliStatus, cliIdCode, cliLog>>
idVars == <<idPhase, idBytes, idInfo>>
vcVars == <<vcd, vcdByte, vcdTaken>>
dcVars == <<dcInsn, dcArgs, dcRep, dcResult>>
tapVars == <<tckState, tckTimer, mayUpdate, busTms, busTdo, tdiReg,
             jtagState, resetTimer, insn, insnNext, insnCounter,
             dataIn, dataOut, dataCounter, idCode, tapDataIn>>
pdiVars == <<pdiState, insnState, tapIssue, tapDataOut, newCommand, needData,
             readCount, writeCount, repCount, repeatData>>
adVars == <<adState, header, resetIssue, idCodeIssue, pdiIssue, pdiCmd,
            pdiDataOut, in_fifo>>
tgtVars == <<tgtState, tgtInsn, tgtIR, tgtDR, tgtId>>
seenVars == <<tmsHighRun, txByte, txBytes, txNeeds, txIssued, txScans, busUnit,
              resetRun, firstResetInsn, shiftSteps, irBits, lastStep>>
hostVars == <<hostPhase, hostOwes, hostSent>>
drvVars == <<tapVars, pdiVars, adVars, tgtVars, seenVars, hostVars, out_fifo>>
dsVars == <<dsState, dsInsnState, dsOpcode, dsArgs, dsData, dsReadCount,
            dsWriteCount, dsRepCount, dsNewCommand, dsUpdateCountsNext,
            dsRepeatData, dsDataIn, dsDataOut, sfState, sfStream,
            obUnits, obOp, obHeld, obWritten, obReads, obErrs, obAborted,
            obAfterErr, obError, obFlips, obDone, obKind, obIds,
            obRearmed, obMiscount>>
rtVars == <<rtSize, rtValue, rtPhase, rtBytes, rtSent, rtAcc, rtCount, rtTwice>>

\* ------------------------------------------------- observer TAP (sniffer)
\* The table below with EXIT2-IR staying paused on TMS low.
SnTapNextBad(state, tms) ==
    CASE state = "RESET"      -> IF tms = 0 THEN "IDLE" ELSE "RESET"
      [] state = "IDLE"       -> IF tms = 1 THEN "SELECT-DR" ELSE "IDLE"
      [] state = "SELECT-DR"  -> IF tms = 1 THEN "SELECT-IR" ELSE "CAPTURE-DR"
      [] state = "CAPTURE-DR" -> IF tms = 1 THEN "EXIT1-DR" ELSE "SHIFT-DR"
      [] state = "SHIFT-DR"   -> IF tms = 1 THEN "EXIT1-DR" ELSE "SHIFT-DR"
      [] state = "EXIT1-DR"   -> IF tms = 1 THEN "UPDATE-DR" ELSE "PAUSE-DR"
      [] state = "PAUSE-DR"   -> IF tms = 1 THEN "EXIT2-DR" ELSE "PAUSE-DR"
      [] state = "EXIT2-DR"   -> IF tms = 1 THEN "UPDATE-DR" ELSE "SHIFT-DR"
      [] state = "UPDATE-DR"  -> IF tms = 1 THEN "SELECT-DR" ELSE "IDLE"
      [] state = "SELECT-IR"  -> IF tms = 1 THEN "RESET" ELSE "CAPTURE-IR"
      [] state = "CAPTURE-IR" -> IF tms = 1 THEN "EXIT1-IR" ELSE "SHIFT-IR"
      [] state = "SHIFT-IR"   -> IF tms = 1 THEN "EXIT1-IR" ELSE "SHIFT-IR"
      [] state = "EXIT1-IR"   -> IF tms = 1 THEN "UPDATE-IR" ELSE "PAUSE-IR"
      [] state = "PAUSE-IR"   -> IF tms = 1 THEN "EXIT2-IR" ELSE "PAUSE-IR"
      [] state = "EXIT2-IR"   -> IF tms = 1 THEN "UPDATE-IR" ELSE "PAUSE-IR"
      [] state = "UPDATE-IR"  -> IF tms = 1 THEN "SELECT-DR" ELSE "IDLE"

\* The FSM of JTAGTAP.elaborate: the state after a TCK edge that samples tms.
SnTapNext(state, tms) ==
    CASE state = "RESET"      -> IF tms = 0 THEN "IDLE" ELSE "RESET"
      [] state = "IDLE"       -> IF tms = 1 THEN "SELECT-DR" ELSE "IDLE"
      [] state = "SELECT-DR"  -> IF tms = 1 THEN "SELECT-IR" ELSE "CAPTURE-DR"
      [] state = "CAPTURE-DR" -> IF tms = 1 THEN "EXIT1-DR" ELSE "SHIFT-DR"
      [] state = "SHIFT-DR"   -> IF tms = 1 THEN "EXIT1-DR" ELSE "SHIFT-DR"
      [] state = "EXIT1-DR"   -> IF tms = 1 THEN "UPDATE-DR" ELSE "PAUSE-DR"
      [] state = "PAUSE-DR"   -> IF tms = 1 THEN "EXIT2-DR" ELSE "PAUSE-DR"
      [] state = "EXIT2-DR"   -> IF tms = 1 THEN "UPDATE-DR" ELSE "SHIFT-DR"
      [] state = "UPDATE-DR"  -> IF tms = 1 THEN "SELECT-DR" ELSE "IDLE"
      [] state = "SELECT-IR"  -> IF tms = 1 THEN "RESET" ELSE "CAPTURE-IR"
      [] state = "CAPTURE-IR" -> IF tms = 1 THEN "EXIT1-IR" ELSE "SHIFT-IR"
      [] state = "SHIFT-IR"   -> IF tms = 1 THEN "EXIT1-IR" ELSE "SHIFT-IR"
      [] state = "EXIT1-IR"   -> IF tms = 1 THEN "UPDATE-IR" ELSE "PAUSE-IR"
      [] state = "PAUSE-IR"   -> IF tms = 1 THEN "EXIT2-IR" ELSE "PAUSE-IR"
      [] state = "EXIT2-IR"   -> IF tms = 1 THEN "UPDATE-IR" ELSE "SHIFT-IR"
      [] state = "UPDATE-IR"  -> IF tms = 1 THEN "SELECT-DR" ELSE "IDLE"

\* shiftDR after the edge: set leaving CAPTURE-DR with TMS low, cleared
\* leaving SHIFT-DR with TMS high and leaving RESET.
SnShiftDRNext(state, tms) ==
    CASE state = "RESET" /\ tms = 0      -> 0
      [] state = "CAPTURE-DR" /\ tms = 0 -> 1
      [] state = "SHIFT-DR" /\ tms = 1   -> 0
      [] OTHER                           -> snShiftDR

SnShiftIRNext(state, tms) ==
    CASE state = "RESET" /\ tms = 0      -> 0
      [] state = "CAPTURE-IR" /\ tms = 0 -> 1
      [] state = "SHIFT-IR" /\ tms = 1   -> 0
      [] OTHER                           -> snShiftIR

\* insnNext shifts while shiftIR is set, insn takes it in UPDATE-IR.
SnInsnNextNext(tdi) ==
    IF snShiftIR = 1 THEN (snInsnNext \div 2) + 8 * tdi ELSE snInsnNext

\* insn that leaving RESET does not touch.
SnInsnNextBad(state, tms) ==
    CASE snShiftIR = 0 /\ state = "UPDATE-IR"      -> snInsnNext
      [] OTHER                                     -> snInsn

SnInsnNext(state, tms) ==
    CASE state = "RESET" /\ tms = 0                -> TAP_idCode
      [] snShiftIR = 0 /\ state = "UPDATE-IR"      -> snInsnNext
      [] OTHER                                     -> snInsn

SnInit ==
    /\ snState = "RESET"
    /\ snShiftDR = 0
    /\ snShiftIR = 0
    /\ snInsn = 0
    /\ snInsnNext = 0
    /\ snPrev = "none"
    /\ snTms = 0
    /\ snTrace = <<>>
    /\ snVisIR = 0
    /\ snVisDR = 0
    /\ snDataIn = Zeros(32)
    /\ snDataOut = Zeros(32)
    /\ snIdCode = Zeros(32)
    /\ snPdiDataIn = 0
    /\ snPdiDataOut = 0
    /\ snFresh = TRUE

\* updateDR: the comb signal UPDATE-DR drives.
SnUpdateDR == snState = "UPDATE-DR"

\* idCodeReady and pdiReady, the comb strobes of the updateDR branch.
SnIdCodeReady == snShiftDR = 0 /\ SnUpdateDR /\ snInsn = TAP_idCode
SnPdiReady == snShiftDR = 0 /\ SnUpdateDR /\ snInsn = TAP_pdiCom

\* Cat(reg[1:32], bit): the register one TCK edge later while shiftDR is set.
SnShiftIn(reg, bit) == Append(Tail(reg), bit)

\* dataIn and dataOut after the edge.
SnDataInNext(tdi) == IF snShiftDR = 1 THEN SnShiftIn(snDataIn, tdi) ELSE snDataIn
SnDataOutNext(tdo) == IF snShiftDR = 1 THEN SnShiftIn(snDataOut, tdo) ELSE snDataOut

\* The published registers after the edge.
SnIdCodeNext == IF SnIdCodeReady THEN snDataOut ELSE snIdCode
\* pdiDataIn taken from the low nine bits of the shift register.
SnPdiDataInNextBad ==
    IF SnPdiReady THEN BitsToNat(Slice(snDataIn, 0, 9)) ELSE snPdiDataIn

SnPdiDataInNext ==
    IF SnPdiReady THEN BitsToNat(Slice(snDataIn, 23, 32)) ELSE snPdiDataIn
SnPdiDataOutNext ==
    IF SnPdiReady THEN BitsToNat(Slice(snDataOut, 23, 32)) ELSE snPdiDataOut

\* One rising edge of TCK with the pins at tms, tdi and tdo.
SnifferClock(tms, tdi, tdo) ==
    LET next == SnTapNext(snState, tms)
        rec  == Len(snTrace) < MaxTrace /\ (snPrev = "none" \/ snTrace # <<>>)
    IN  /\ snState' = next
        /\ snShiftDR' = SnShiftDRNext(snState, tms)
        /\ snShiftIR' = SnShiftIRNext(snState, tms)
        /\ snInsnNext' = SnInsnNextNext(tdi)
        /\ snInsn' = SnInsnNext(snState, tms)
        /\ snPrev' = snState
        /\ snTms' = tms
        /\ snTrace' = IF rec THEN Append(snTrace, tms) ELSE <<>>
        /\ snVisIR' = IF rec THEN snVisIR + (IF next = "UPDATE-IR" THEN 1 ELSE 0)
                      ELSE 0
        /\ snVisDR' = IF rec THEN snVisDR + (IF next = "UPDATE-DR" THEN 1 ELSE 0)
                      ELSE 0
        /\ snDataIn' = SnDataInNext(tdi)
        /\ snDataOut' = SnDataOutNext(tdo)
        /\ snIdCode' = SnIdCodeNext
        /\ snPdiDataIn' = SnPdiDataInNext
        /\ snPdiDataOut' = SnPdiDataOutNext
        /\ snFresh' = (next = "RESET" \/ (snFresh /\ next # "UPDATE-IR"))

\* ---------------------------------------------- bench on the observer's pins
\* The pin values of one TCK edge: <<tms, tdi, tdo>>.
\* resetJTAG: TMS high for four edges, then low for one.
ResetJTAG == <<<<1, 1, 1>>, <<1, 1, 1>>, <<1, 1, 1>>, <<1, 1, 1>>, <<0, 1, 1>>>>

\* The n shift edges of a scan that clocks the bits of din on TDI and of dout
\* on TDO, TMS high on the last one.
ShiftEdges(din, dout, n) ==
    [i \in 1 .. n |-> <<IF i = n THEN 1 ELSE 0, Bit(din, i - 1), Bit(dout, i - 1)>>]

\* jtagInsn: IDLE to SHIFT-IR, the four bits of insn, UPDATE-IR and IDLE.
JtagInsn(code) ==
    <<<<1, 1, 1>>, <<1, 1, 1>>, <<0, 1, 1>>, <<0, 1, 1>>>>
    \o ShiftEdges(code, 0, 4) \o <<<<1, 1, 0>>, <<0, 1, 1>>>>

\* The identification value readIDCode shifts out on TDO, as its four bytes
\* from the low one up (0x6984203F).
BenchIdCode == <<63, 32, 132, 105>>

\* readIDCode: IDLE to SHIFT-DR, 32 bits with TDI low, UPDATE-DR and IDLE.
ReadIDCode ==
    <<<<1, 1, 1>>, <<0, 1, 1>>, <<0, 1, 1>>>>
    \o [i \in 1 .. 32 |->
          <<IF i = 32 THEN 1 ELSE 0, 0,
            Bit(BenchIdCode[((i - 1) \div 8) + 1], (i - 1) % 8)>>]
    \o <<<<1, 1, 0>>, <<0, 1, 1>>>>

\* jtagPDI: IDLE to SHIFT-DR, the nine bits of the two units, UPDATE-DR, IDLE.
JtagPDI(unitIn, unitOut) ==
    <<<<1, 1, 1>>, <<0, 1, 1>>, <<0, 1, 1>>>>
    \o ShiftEdges(unitIn, unitOut, 9) \o <<<<1, 1, 1>>, <<0, 1, 1>>>>

\* A PDI scan the host pauses after PauseAt bits: EXIT1-DR, PAUSE-DR and
\* EXIT2-DR, back to SHIFT-DR for the remaining bits.
PauseAt == 4
JtagPDIPaused(unitIn, unitOut) ==
    LET bits == ShiftEdges(unitIn, unitOut, 9)
        head == [i \in 1 .. PauseAt |->
                    <<IF i = PauseAt THEN 1 ELSE 0, bits[i][2], bits[i][3]>>]
    IN  <<<<1, 1, 1>>, <<0, 1, 1>>, <<0, 1, 1>>>>
        \o head \o <<<<0, 1, 1>>, <<1, 1, 1>>, <<0, 1, 1>>>>
        \o SubSeq(bits, PauseAt + 1, 9) \o <<<<1, 1, 1>>, <<0, 1, 1>>>>

\* The unit pairs <<TDI, TDO>> of the bench's PDI scans used here:
\* (0xC0, 0) against (0xEB, 1), and (0xA1, 1) against (0x98, 1).
BenchUnits == {<<192, 491>>, <<417, 408>>}

\* The scans the bench can start.
BenchOps ==
    {[name |-> "reset", edges |-> ResetJTAG],
     [name |-> "idcode", edges |-> ReadIDCode]}
    \cup {[name |-> "insn", edges |-> JtagInsn(c)] :
             c \in {TAP_idCode, TAP_pdiCom, TAP_bypass}}
    \cup {[name |-> "pdi", edges |-> JtagPDI(u[1], u[2])] : u \in BenchUnits}
    \cup {[name |-> "paused", edges |-> JtagPDIPaused(u[1], u[2])] :
             u \in {<<192, 491>>}}

HsInit ==
    /\ hsQueue = <<>>
    /\ hsOps = 0
    /\ hsLast = "none"

\* The bench starts a scan: the pin values of its edges are queued.
HsIssue(op) ==
    /\ hsQueue = <<>>
    /\ hsOps < MaxOps
    /\ hsQueue' = op.edges
    /\ hsOps' = hsOps + 1
    /\ hsLast' = op.name
    /\ UNCHANGED snVars

\* One TCK edge of the scan in progress.
HsEdge ==
    /\ hsQueue # <<>>
    /\ SnifferClock(Head(hsQueue)[1], Head(hsQueue)[2], Head(hsQueue)[3])
    /\ hsQueue' = Tail(hsQueue)
    /\ UNCHANGED <<hsOps, hsLast>>

\* ------------------------------------------------ host-side count decode
\* _handle_lds .. _handle_key: (readCount, writeCount).
HandleLds(sizeA, sizeB, repeats) == <<sizeB, sizeA>>
\* _handle_ld counting the repeats without the first pass.
HandleLdBad(sizeA, sizeB, repeats) == <<sizeB * repeats, 0>>
HandleLd(sizeA, sizeB, repeats) == <<sizeB * (repeats + 1), 0>>
HandleSts(sizeA, sizeB, repeats) == <<0, sizeA + sizeB>>
HandleSt(sizeA, sizeB, repeats) == <<0, sizeB * (repeats + 1)>>
HandleLdcs(sizeA, sizeB, repeats) == <<1, 0>>
HandleStcs(sizeA, sizeB, repeats) == <<0, 1>>
HandleRepeat(sizeA, sizeB, repeats) == <<0, sizeB>>
HandleKey(sizeA, sizeB, repeats) == <<0, 8>>

\* self._pdi_handlers[opcode](sizeA, sizeB, repeats)
PdiHandlers(opcode, sizeA, sizeB, repeats) ==
    CASE opcode = OP_LDS    -> HandleLds(sizeA, sizeB, repeats)
      [] opcode = OP_LD     -> HandleLd(sizeA, sizeB, repeats)
      [] opcode = OP_STS    -> HandleSts(sizeA, sizeB, repeats)
      [] opcode = OP_ST     -> HandleSt(sizeA, sizeB, repeats)
      [] opcode = OP_LDCS   -> HandleLdcs(sizeA, sizeB, repeats)
      [] opcode = OP_STCS   -> HandleStcs(sizeA, sizeB, repeats)
      [] opcode = OP_REPEAT -> HandleRepeat(sizeA, sizeB, repeats)
      [] opcode = OP_KEY    -> HandleKey(sizeA, sizeB, repeats)

\* _decode_counts(opcode, args, repeats): args & 0x0C and args & 0x03.
DecodeCounts(opcode, args, repeats) ==
    LET sizeA == ((args % 16) \div 4) + 1
        sizeB == (args % 4) + 1
    IN  PdiHandlers(opcode, sizeA, sizeB, repeats)

DcInit ==
    /\ dcInsn \in 0..7
    /\ dcArgs \in 0..15
    /\ dcRep \in 0..MaxRep
    /\ dcResult = <<>>

\* The decode applied to the inputs held.
DcDecode ==
    /\ dcResult = <<>>
    /\ dcResult' = DecodeCounts(dcInsn, dcArgs, dcRep)
    /\ UNCHANGED <<dcInsn, dcArgs, dcRep>>

\* The next opcode byte arrives: new inputs, no result yet.
DcNewInput ==
    /\ dcResult # <<>>
    /\ dcInsn' \in 0..7
    /\ dcArgs' \in 0..15
    /\ dcRep' \in 0..MaxRep
    /\ dcResult' = <<>>

\* ------------------------------------------------- driver TAP (interactive)
\* The jtag FSM of JTAGTAP.elaborate.  Each state gives, for the current
\* cycle, its combinational outputs and the next value of every register it
\* drives; a register it does not assign keeps its value.  pdiIssue and
\* pdiDataOut of the TAP are the controller's tapIssue and tapDataOut.
JtagHold ==
    [next |-> jtagState, tms |-> 0, tdo |-> 1, cycleReady |-> FALSE,
     resetComplete |-> FALSE, idCodeReady |-> FALSE, pdiReady |-> FALSE,
     resetTimer |-> resetTimer, insn |-> insn, insnNext |-> insnNext,
     insnCounter |-> insnCounter, dataIn |-> dataIn, dataOut |-> dataOut,
     dataCounter |-> dataCounter, idCode |-> idCode, pdiDataIn |-> tapDataIn]

JtagStep == [JtagHold EXCEPT !.cycleReady = TRUE]

\* RESET without the instruction latch.
JtagRESETBad ==
    IF resetTimer # 0
    THEN [JtagStep EXCEPT !.tms = 1, !.resetTimer = resetTimer - 1]
    ELSE [JtagStep EXCEPT !.resetTimer = 2, !.resetComplete = TRUE,
                          !.next = "IDLE"]

JtagRESET ==
    IF resetTimer # 0
    THEN [JtagStep EXCEPT !.tms = 1, !.resetTimer = resetTimer - 1]
    ELSE [JtagStep EXCEPT !.resetTimer = 2, !.insn = TAP_bypass,
                          !.resetComplete = TRUE, !.next = "IDLE"]

JtagIDLE ==
    IF resetIssue \/ idCodeIssue \/ tapIssue
    THEN [JtagStep EXCEPT !.tms = 1, !.next = "SELECT-DR"]
    ELSE JtagStep

\* SELECT-DR that scans the instruction register for every request.
JtagSELECT_DRBad ==
    IF resetIssue \/ idCodeIssue \/ tapIssue
    THEN [JtagStep EXCEPT !.tms = 1, !.next = "SELECT-IR"]
    ELSE JtagStep

JtagSELECT_DR ==
    IF resetIssue
    THEN [JtagStep EXCEPT !.tms = 1, !.next = "SELECT-IR"]
    ELSE IF (idCodeIssue /\ insn = TAP_idCode) \/ (tapIssue /\ insn = TAP_pdiCom)
    THEN [JtagStep EXCEPT !.next = "CAPTURE-DR"]
    ELSE IF idCodeIssue \/ tapIssue
    THEN [JtagStep EXCEPT !.tms = 1, !.next = "SELECT-IR"]
    ELSE JtagStep

JtagCAPTURE_DR ==
    [JtagStep EXCEPT
        !.dataCounter = IF tapIssue THEN 9 ELSE IF idCodeIssue THEN 31 ELSE @,
        !.dataOut = IF tapIssue THEN NatToBits(tapDataOut, 9) \o Zeros(23) ELSE @,
        !.next = "SHIFT-DR"]

JtagSHIFT_DR ==
    LET shifted == [JtagStep EXCEPT
                       !.dataOut = Tail(dataOut) \o <<0>>,
                       !.dataIn = Tail(dataIn) \o <<tdiReg>>,
                       !.tdo = dataOut[1]]
    IN  IF dataCounter # 0
        THEN [shifted EXCEPT !.dataCounter = dataCounter - 1]
        ELSE [shifted EXCEPT !.tms = 1, !.next = "EXIT-DR"]

\* EXIT-DR that signals the PDI scan complete one step early.
JtagEXIT_DRBad ==
    [JtagStep EXCEPT !.tms = 1, !.next = "UPDATE-DR", !.pdiReady = tapIssue]

JtagEXIT_DR == [JtagStep EXCEPT !.tms = 1, !.next = "UPDATE-DR"]

JtagUPDATE_DR ==
    IF idCodeIssue
    THEN [JtagStep EXCEPT !.idCode = dataIn, !.idCodeReady = TRUE, !.next = "IDLE"]
    ELSE IF tapIssue
    THEN [JtagStep EXCEPT !.pdiDataIn = BitsToNat(Slice(dataIn, 23, 32)),
                          !.pdiReady = TRUE, !.next = "IDLE"]
    ELSE [JtagStep EXCEPT !.next = "IDLE"]

JtagSELECT_IR ==
    IF resetIssue
    THEN [JtagStep EXCEPT !.tms = 1, !.next = "RESET"]
    ELSE IF idCodeIssue \/ tapIssue
    THEN [JtagStep EXCEPT !.next = "CAPTURE-IR"]
    ELSE JtagStep

JtagCAPTURE_IR ==
    [JtagStep EXCEPT
        !.insnNext = IF idCodeIssue THEN TAP_idCode
                     ELSE IF tapIssue THEN TAP_pdiCom ELSE @,
        !.insnCounter = 3,
        !.next = "SHIFT-IR"]

\* SHIFT-IR that counts without shifting insnNext.
JtagSHIFT_IRBad ==
    IF insnCounter # 0
    THEN [JtagStep EXCEPT !.insnCounter = insnCounter - 1,
                          !.tdo = insnNext % 2]
    ELSE [JtagStep EXCEPT !.tms = 1, !.next = "EXIT-IR", !.tdo = insnNext % 2]

JtagSHIFT_IR ==
    IF insnCounter # 0
    THEN [JtagStep EXCEPT !.insnCounter = insnCounter - 1,
                          !.insnNext = insnNext \div 2,
                          !.tdo = insnNext % 2]
    ELSE [JtagStep EXCEPT !.tms = 1, !.next = "EXIT-IR", !.tdo = insnNext % 2]

JtagEXIT_IR == [JtagStep EXCEPT !.tms = 1, !.next = "UPDATE-IR"]

\* UPDATE-IR that goes on to SELECT-DR with TMS left low.
JtagUPDATE_IRBad ==
    LET latched == [JtagStep EXCEPT
                       !.insn = IF idCodeIssue THEN TAP_idCode
                                ELSE IF tapIssue THEN TAP_pdiCom ELSE @]
    IN  IF idCodeIssue \/ tapIssue
        THEN [latched EXCEPT !.next = "SELECT-DR"]
        ELSE [latched EXCEPT !.next = "IDLE"]

JtagUPDATE_IR ==
    LET latched == [JtagStep EXCEPT
                       !.insn = IF idCodeIssue THEN TAP_idCode
                                ELSE IF tapIssue THEN TAP_pdiCom ELSE @]
    IN  IF idCodeIssue \/ tapIssue
        THEN [latched EXCEPT !.tms = 1, !.next = "SELECT-DR"]
        ELSE [latched EXCEPT !.next = "IDLE"]

\* The jtag FSM: every state acts only in a cycle with mayUpdate set.
JtagFsm ==
    IF ~mayUpdate THEN JtagHold
    ELSE CASE jtagState = "RESET"      -> JtagRESET
           [] jtagState = "IDLE"       -> JtagIDLE
           [] jtagState = "SELECT-DR"  -> JtagSELECT_DR
           [] jtagState = "CAPTURE-DR" -> JtagCAPTURE_DR
           [] jtagState = "SHIFT-DR"   -> JtagSHIFT_DR
           [] jtagState = "EXIT-DR"    -> JtagEXIT_DR
           [] jtagState = "UPDATE-DR"  -> JtagUPDATE_DR
           [] jtagState = "SELECT-IR"  -> JtagSELECT_IR
           [] jtagState = "CAPTURE-IR" -> JtagCAPTURE_IR
           [] jtagState = "SHIFT-IR"   -> JtagSHIFT_IR
           [] jtagState = "EXIT-IR"    -> JtagEXIT_IR
           [] jtagState = "UPDATE-IR"  -> JtagUPDATE_IR

\* pads.tdo_t.i, the target's TDO: the bit its data register presents, the
\* line idling high.
PadTdo == IF tgtDR # <<>> THEN Head(tgtDR) ELSE 1

\* The tck FSM: TCK high then low for HalfCyc cycles each.  Leaving TCK-H it
\* sets mayUpdate; in TCK-L it latches TMS and TDO onto the bus in the cycle
\* the jtag FSM steps, and samples TDI as TCK rises.
TckFsm(J) ==
    LET hold == [state |-> tckState, timer |-> tckTimer, mayUpdate |-> mayUpdate,
                 busTms |-> busTms, busTdo |-> busTdo, tdi |-> tdiReg]
    IN  IF tckState = "TCK-H"
        THEN IF tckTimer # 0
             THEN [hold EXCEPT !.timer = tckTimer - 1]
             ELSE [hold EXCEPT !.timer = HalfCyc - 1, !.mayUpdate = TRUE,
                               !.state = "TCK-L"]
        ELSE IF tckTimer # 0
             THEN IF J.cycleReady
                  THEN [hold EXCEPT !.timer = tckTimer - 1, !.busTms = J.tms,
                                    !.busTdo = J.tdo, !.mayUpdate = FALSE]
                  ELSE [hold EXCEPT !.timer = tckTimer - 1]
             ELSE [hold EXCEPT !.timer = HalfCyc - 1, !.tdi = PadTdo,
                               !.state = "TCK-H"]

\* TCK rises at the end of this cycle.
TckRising == tckState = "TCK-L" /\ tckTimer = 0

TapInit ==
    /\ tckState = "TCK-H"
    /\ tckTimer = HalfCyc - 1
    /\ mayUpdate = FALSE
    /\ busTms = 0
    /\ busTdo = 1
    /\ tdiReg = 0
    /\ jtagState = "RESET"
    /\ resetTimer = 0
    /\ insn = 0
    /\ insnNext = 0
    /\ insnCounter = 0
    /\ dataIn = Zeros(32)
    /\ dataOut = Zeros(32)
    /\ dataCounter = 0
    /\ idCode = Zeros(32)
    /\ tapDataIn = 0

\* ------------------------------------------- PDI controller (interactive)
\* opcode, sizeA and sizeB are wired from the command byte.
CmdOpcode == pdiCmd \div 32
CmdSizeA == ((pdiCmd \div 4) % 4) + 1
CmdSizeB == (pdiCmd % 4) + 1

\* updateRepeat is driven low and nothing else drives it.
UpdateRepeat == FALSE

\* writeCount - 1 and repCount - 1 on 32 bits: 0 wraps to 0xFFFFFFFF, held
\* here as -1 (its value read as two's complement).
Dec32(x) == IF x = 0 THEN -1 ELSE x - 1

\* out_fifo.r_rdy & pdiNeedData in HANDLE-PDI: the adapter hands a byte over.
PdiDataReady == adState = "HANDLE-PDI" /\ out_fifo # <<>> /\ needData

\* The pdi FSM of PDIController.elaborate, given the TAP's pdiReady.
PdiHold ==
    [next |-> pdiState, tapIssue |-> tapIssue, tapDataOut |-> tapDataOut,
     newCommand |-> newCommand, needData |-> needData, writeCount |-> writeCount,
     updateCounts |-> FALSE, complete |-> FALSE]

PdiIDLE ==
    IF pdiIssue
    THEN [PdiHold EXCEPT !.tapDataOut = Unit(pdiCmd), !.tapIssue = TRUE,
                         !.newCommand = TRUE, !.updateCounts = TRUE,
                         !.next = "SEND-CMD"]
    ELSE PdiHold

PdiSEND_CMD(tapReady) ==
    IF tapReady
    THEN IF writeCount # 0
         THEN [PdiHold EXCEPT !.tapIssue = FALSE, !.newCommand = FALSE,
                              !.needData = TRUE, !.next = "SEND-DATA"]
         ELSE [PdiHold EXCEPT !.tapIssue = FALSE, !.newCommand = FALSE,
                              !.next = "RECV-DATA"]
    ELSE PdiHold

\* tapDataOut takes the controller's dataOut register as it stands in this
\* cycle; the adapter loads that register at the same clock edge.
PdiSEND_DATA ==
    IF PdiDataReady
    THEN [PdiHold EXCEPT !.needData = FALSE, !.tapDataOut = Unit(pdiDataOut),
                         !.tapIssue = TRUE, !.writeCount = Dec32(writeCount),
                         !.next = "WAIT-DATA"]
    ELSE PdiHold

PdiRECV_DATA == PdiHold

PdiWAIT_DATA(tapReady) ==
    IF tapReady
    THEN IF writeCount # 0
         THEN [PdiHold EXCEPT !.tapIssue = FALSE, !.needData = TRUE,
                              !.next = "SEND-DATA"]
         ELSE IF readCount # 0
         THEN [PdiHold EXCEPT !.tapIssue = FALSE, !.next = "RECV-DATA"]
         ELSE [PdiHold EXCEPT !.tapIssue = FALSE, !.complete = TRUE,
                              !.next = "IDLE"]
    ELSE PdiHold

PdiFsm(tapReady) ==
    CASE pdiState = "IDLE"      -> PdiIDLE
      [] pdiState = "SEND-CMD"  -> PdiSEND_CMD(tapReady)
      [] pdiState = "SEND-DATA" -> PdiSEND_DATA
      [] pdiState = "RECV-DATA" -> PdiRECV_DATA
      [] pdiState = "WAIT-DATA" -> PdiWAIT_DATA(tapReady)

\* The insn FSM of PDIController.elaborate, given updateCounts.  setCounts
\* says that the state assigns writeCount and readCount in this cycle.
InsnHold ==
    [next |-> insnState, setCounts |-> FALSE, writeCount |-> 0, readCount |-> 0,
     repCount |-> repCount, repeatData |-> repeatData]

InsnCounts(w, r) ==
    [InsnHold EXCEPT !.setCounts = TRUE, !.writeCount = w, !.readCount = r,
                     !.next = "IDLE"]

InsnIDLE(updateCounts) ==
    IF updateCounts THEN [InsnHold EXCEPT !.next = "DECODE"] ELSE InsnHold

InsnDECODE ==
    [InsnHold EXCEPT !.next =
        CASE CmdOpcode = OP_LDS    -> "LDS"
          [] CmdOpcode = OP_LD     -> "LD"
          [] CmdOpcode = OP_STS    -> "STS"
          [] CmdOpcode = OP_ST     -> "ST"
          [] CmdOpcode = OP_LDCS   -> "LDCS"
          [] CmdOpcode = OP_STCS   -> "STCS"
          [] CmdOpcode = OP_REPEAT -> "REPEAT"
          [] CmdOpcode = OP_KEY    -> "KEY"]

InsnLDS == InsnCounts(CmdSizeA, CmdSizeB)

InsnLD ==
    [InsnCounts(0, CmdSizeB) EXCEPT
        !.repCount = IF repCount # 0 /\ ~newCommand THEN Dec32(repCount) ELSE @]

InsnSTS == InsnCounts(CmdSizeA + CmdSizeB, 0)

InsnST ==
    [InsnCounts(CmdSizeB, 0) EXCEPT
        !.repCount = IF repCount # 0 /\ ~newCommand THEN Dec32(repCount) ELSE @]

InsnLDCS == InsnCounts(0, 1)

InsnSTCS == InsnCounts(1, 0)

InsnREPEAT == [InsnCounts(CmdSizeB, 0) EXCEPT !.next = "CAPTURE-REPEAT"]

InsnKEY == InsnCounts(8, 0)

\* repeatData is held as its four bytes, least significant first.
InsnCAPTURE_REPEAT ==
    IF UpdateRepeat
    THEN [InsnHold EXCEPT
             !.repeatData = <<tapDataIn % 256, repeatData[1], repeatData[2],
                              repeatData[3]>>,
             !.next = IF writeCount = 1 THEN "UPDATE-REPEAT" ELSE @]
    ELSE InsnHold

\* repCount is the Cat() of the slices named, least significant first, cut
\* to 32 bits: for size field 3 that is bytes 2, 3, 2 and 1 of repeatData.
InsnUPDATE_REPEAT ==
    [InsnHold EXCEPT
        !.repCount =
            CASE pdiCmd % 4 = 0 -> repeatData[1]
              [] pdiCmd % 4 = 1 -> repeatData[2] + 256 * repeatData[1]
              [] pdiCmd % 4 = 2 -> repeatData[3] + 256 * repeatData[2]
                                   + 65536 * repeatData[1]
              [] pdiCmd % 4 = 3 -> repeatData[3] + 256 * repeatData[4]
                                   + 65536 * repeatData[3]
                                   + 16777216 * repeatData[2],
        !.next = "IDLE"]

InsnFsm(updateCounts) ==
    CASE insnState = "IDLE"           -> InsnIDLE(updateCounts)
      [] insnState = "DECODE"         -> InsnDECODE
      [] insnState = "LDS"            -> InsnLDS
      [] insnState = "LD"             -> InsnLD
      [] insnState = "STS"            -> InsnSTS
      [] insnState = "ST"             -> InsnST
      [] insnState = "LDCS"           -> InsnLDCS
      [] insnState = "STCS"           -> InsnSTCS
      [] insnState = "REPEAT"         -> InsnREPEAT
      [] insnState = "KEY"            -> InsnKEY
      [] insnState = "CAPTURE-REPEAT" -> InsnCAPTURE_REPEAT
      [] insnState = "UPDATE-REPEAT"  -> InsnUPDATE_REPEAT

PdiInit ==
    /\ pdiState = "IDLE"
    /\ insnState = "IDLE"
    /\ tapIssue = FALSE
    /\ tapDataOut = 0
    /\ newCommand = FALSE
    /\ needData = FALSE
    /\ readCount = 0
    /\ writeCount = 0
    /\ repCount = 0
    /\ repeatData = <<0, 0, 0, 0>>

\* --------------------------------------- command protocol adapter (interactive)
\* The FSM of JTAGPDIInteractiveSubtarget.elaborate, given the TAP's
\* resetComplete and idCodeReady and the controller's complete.
AdHold ==
    [next |-> adState, header |-> header, resetIssue |-> resetIssue,
     idCodeIssue |-> idCodeIssue, pdiIssue |-> pdiIssue, pdiCmd |-> pdiCmd,
     pdiDataOut |-> pdiDataOut, r_en |-> FALSE, w_en |-> FALSE, w_data |-> 0]

AdWrite(byte, next) == [AdHold EXCEPT !.w_en = TRUE, !.w_data = byte, !.next = next]

AdIDLE ==
    IF out_fifo # <<>> THEN [AdHold EXCEPT !.next = "READ-HEADER"] ELSE AdHold

\* r_en is raised whether or not the FIFO holds a byte; r_data of an empty
\* FIFO is taken as 0.
AdREAD_HEADER ==
    [AdHold EXCEPT !.r_en = TRUE,
                   !.header = IF out_fifo # <<>> THEN Head(out_fifo) ELSE 0,
                   !.next = "DECODE-HEADER"]

AdDECODE_HEADER ==
    CASE header = HDR_Reset  -> [AdHold EXCEPT !.resetIssue = TRUE,
                                               !.next = "WAIT-RESET"]
      [] header = HDR_IDCode -> [AdHold EXCEPT !.idCodeIssue = TRUE,
                                               !.next = "WAIT-IDCODE"]
      [] header = HDR_PDI    -> [AdHold EXCEPT !.next = "READ-PDI-CMD"]
      [] OTHER               -> [AdHold EXCEPT !.next = "IDLE"]

AdWAIT_RESET(resetComplete) ==
    IF resetComplete
    THEN [AdWrite(1, "IDLE") EXCEPT !.resetIssue = FALSE]
    ELSE AdHold

AdWAIT_IDCODE(idCodeReady) ==
    IF idCodeReady
    THEN [AdHold EXCEPT !.idCodeIssue = FALSE, !.next = "SEND-IDCODE-3"]
    ELSE AdHold

\* The last response byte of Read-ID taken from the wrong end of the register.
AdSEND_IDCODE_0Bad == AdWrite(BitsToNat(Slice(idCode, 24, 32)), "IDLE")

AdSEND_IDCODE_3 == AdWrite(BitsToNat(Slice(idCode, 24, 32)), "SEND-IDCODE-2")
AdSEND_IDCODE_2 == AdWrite(BitsToNat(Slice(idCode, 16, 24)), "SEND-IDCODE-1")
AdSEND_IDCODE_1 == AdWrite(BitsToNat(Slice(idCode, 8, 16)), "SEND-IDCODE-0")
AdSEND_IDCODE_0 == AdWrite(BitsToNat(Slice(idCode, 0, 8)), "IDLE")

AdREAD_PDI_CMD ==
    IF out_fifo # <<>>
    THEN [AdHold EXCEPT !.r_en = TRUE, !.pdiIssue = TRUE,
                        !.pdiCmd = Head(out_fifo), !.next = "HANDLE-PDI"]
    ELSE AdHold

\* HANDLE-PDI taking a byte whenever the FIFO holds one.
AdHANDLE_PDIBad(pdiComplete) ==
    IF out_fifo # <<>>
    THEN [AdHold EXCEPT !.r_en = TRUE, !.pdiIssue = TRUE,
                        !.pdiDataOut = Head(out_fifo)]
    ELSE IF pdiComplete
    THEN [AdHold EXCEPT !.pdiIssue = FALSE, !.next = "IDLE"]
    ELSE AdHold

AdHANDLE_PDI(pdiComplete) ==
    IF out_fifo # <<>> /\ needData
    THEN [AdHold EXCEPT !.r_en = TRUE, !.pdiIssue = TRUE,
                        !.pdiDataOut = Head(out_fifo)]
    ELSE IF pdiComplete
    THEN [AdHold EXCEPT !.pdiIssue = FALSE, !.next = "IDLE"]
    ELSE AdHold

AdFsm(resetComplete, idCodeReady, pdiComplete) ==
    CASE adState = "IDLE"          -> AdIDLE
      [] adState = "READ-HEADER"   -> AdREAD_HEADER
      [] adState = "DECODE-HEADER" -> AdDECODE_HEADER
      [] adState = "WAIT-RESET"    -> AdWAIT_RESET(resetComplete)
      [] adState = "WAIT-IDCODE"   -> AdWAIT_IDCODE(idCodeReady)
      [] adState = "SEND-IDCODE-3" -> AdSEND_IDCODE_3
      [] adState = "SEND-IDCODE-2" -> AdSEND_IDCODE_2
      [] adState = "SEND-IDCODE-1" -> AdSEND_IDCODE_1
      [] adState = "SEND-IDCODE-0" -> AdSEND_IDCODE_0
      [] adState = "READ-PDI-CMD"  -> AdREAD_PDI_CMD
      [] adState = "HANDLE-PDI"    -> AdHANDLE_PDI(pdiComplete)

AdInit ==
    /\ adState = "IDLE"
    /\ header = 0
    /\ resetIssue = FALSE
    /\ idCodeIssue = FALSE
    /\ pdiIssue = FALSE
    /\ pdiCmd = 0
    /\ pdiDataOut = 0
    /\ in_fifo = <<>>

\* ------------------------------------------------------- target on the bus
\* The device the bench plays on the pads: a TAP that follows TMS on each
\* rising TCK edge, takes the instruction the driver shifts in, loads its
\* data register leaving Capture-DR and presents it least significant bit
\* first while in Shift-DR.  Under PDICOM it answers every scan with the
\* unit (0xEB, parity 1) of the bench.
PdiReply == 491

\* The identification codes a target may hold, as four bytes, low byte first.
IdCodes == { <<63, 32, 132, 105>>, <<1, 0, 0, 128>> }

TgtCapture ==
    CASE tgtInsn = TAP_idCode -> NatToBits(tgtId[1], 8) \o NatToBits(tgtId[2], 8)
                                 \o NatToBits(tgtId[3], 8) \o NatToBits(tgtId[4], 8)
      [] tgtInsn = TAP_pdiCom -> NatToBits(PdiReply, 9)
      [] OTHER                -> <<0>>

\* The target's registers after a rising TCK edge.  The identification
\* register is on the pad from the TCK period of CAPTURE-DR on, one bit per
\* rising edge (write_id_code, writeIDCode); the PDI register is loaded on the
\* edge that leaves CAPTURE-DR (jtagPDI).
TgtClock ==
    [state |-> SnTapNext(tgtState, busTms),
     insn  |-> CASE tgtState = "RESET"     -> TAP_idCode
                 [] tgtState = "UPDATE-IR" -> BitsToNat(tgtIR)
                 [] OTHER                  -> tgtInsn,
     ir    |-> CASE tgtState = "CAPTURE-IR" -> <<>>
                 [] tgtState = "SHIFT-IR"   ->
                        IF Len(tgtIR) < 4 THEN Append(tgtIR, busTdo)
                        ELSE Append(Tail(tgtIR), busTdo)
                 [] OTHER                   -> tgtIR,
     dr    |-> CASE tgtState = "SELECT-DR" /\ busTms = 0 /\ tgtInsn = TAP_idCode
                        -> TgtCapture
                 [] tgtState = "CAPTURE-DR" /\ tgtInsn # TAP_idCode -> TgtCapture
                 [] tgtState \in {"CAPTURE-DR", "SHIFT-DR"} ->
                        IF tgtDR # <<>> THEN Tail(tgtDR) ELSE tgtDR
                 [] tgtState = "UPDATE-DR"  -> <<>>
                 [] OTHER                   -> tgtDR]

TgtInit ==
    /\ tgtState = "RESET"
    /\ tgtInsn = TAP_idCode
    /\ tgtIR = <<>>
    /\ tgtDR = <<>>
    /\ tgtId \in IdCodes

\* ------------------------------------------------------------ one sys clock
Min(a, b) == IF a < b THEN a ELSE b

SeenInit ==
    /\ tmsHighRun = 0
    /\ txByte = 0
    /\ txBytes = 0
    /\ txNeeds = 0
    /\ txIssued = 0
    /\ txScans = 0
    /\ busUnit = <<>>
    /\ resetRun = 0
    /\ firstResetInsn = -1
    /\ shiftSteps = 0
    /\ irBits = <<>>
    /\ lastStep = "NONE"

\* What one clock edge adds to the record of the run, given the outputs of
\* the jtag FSM (J), the pdi FSM (P) and the adapter FSM (A) in this cycle.
Seen(J, P, A) ==
    LET newCmd == adState = "READ-PDI-CMD" /\ A.r_en
        taken  == adState = "HANDLE-PDI" /\ A.r_en
        done   == adState = "WAIT-RESET" /\ J.resetComplete
    IN  /\ tmsHighRun' = IF ~J.cycleReady THEN tmsHighRun
                         ELSE IF J.tms = 1 THEN Min(tmsHighRun + 1, MaxRun)
                         ELSE 0
        /\ busUnit' = IF J.cycleReady /\ jtagState = "CAPTURE-DR" THEN <<>>
                      ELSE IF J.cycleReady /\ jtagState = "SHIFT-DR"
                              /\ Len(busUnit) < 9
                      THEN Append(busUnit, J.tdo)
                      ELSE busUnit
        /\ txByte' = IF newCmd THEN 0
                     ELSE IF taken THEN Head(out_fifo) ELSE txByte
        /\ txBytes' = IF newCmd THEN 0
                      ELSE IF taken THEN txBytes + 1 ELSE txBytes
        /\ txNeeds' = IF newCmd THEN 0
                      ELSE IF P.needData /\ ~needData THEN txNeeds + 1
                      ELSE txNeeds
        /\ txIssued' = IF newCmd THEN 0
                       ELSE IF pdiState = "SEND-DATA" /\ P.next = "WAIT-DATA"
                       THEN txIssued + 1
                       ELSE txIssued
        /\ txScans' = IF newCmd THEN 0
                      ELSE IF J.pdiReady THEN txScans + 1 ELSE txScans
        /\ resetRun' = IF done THEN Min(resetRun + 1, MaxResets)
                       ELSE IF adState = "DECODE-HEADER" /\ header # HDR_Reset
                       THEN 0
                       ELSE resetRun
        /\ firstResetInsn' = IF done /\ firstResetInsn = -1 THEN J.insn
                             ELSE firstResetInsn
        /\ shiftSteps' = IF ~J.cycleReady THEN shiftSteps
                         ELSE IF jtagState \in {"CAPTURE-DR", "UPDATE-DR"} THEN 0
                         ELSE IF jtagState = "SHIFT-DR"
                         THEN Min(shiftSteps + 1, MaxShift)
                         ELSE shiftSteps
        /\ irBits' = IF ~J.cycleReady THEN irBits
                     ELSE IF jtagState \in {"CAPTURE-IR", "UPDATE-IR"} THEN <<>>
                     ELSE IF jtagState = "SHIFT-IR" /\ Len(irBits) < 5
                     THEN Append(irBits, <<J.tms, J.tdo>>)
                     ELSE irBits
        /\ lastStep' = IF J.cycleReady THEN jtagState ELSE lastStep

\* One edge of the sync clock: every FSM of the subtarget takes its step on
\* the values the registers hold before the edge.  writeCount is assigned by
\* the pdi FSM and by the insn FSM; the insn FSM's statement comes later and
\* wins when both assign.
Tick ==
    LET J == JtagFsm
        P == PdiFsm(J.pdiReady)
        I == InsnFsm(P.updateCounts)
        A == AdFsm(J.resetComplete, J.idCodeReady, P.complete)
        T == TckFsm(J)
        G == IF TckRising THEN TgtClock
             ELSE [state |-> tgtState, insn |-> tgtInsn, ir |-> tgtIR,
                   dr |-> tgtDR]
    IN  /\ tckState' = T.state
        /\ tckTimer' = T.timer
        /\ mayUpdate' = T.mayUpdate
        /\ busTms' = T.busTms
        /\ busTdo' = T.busTdo
        /\ tdiReg' = T.tdi
        /\ jtagState' = J.next
        /\ resetTimer' = J.resetTimer
        /\ insn' = J.insn
        /\ insnNext' = J.insnNext
        /\ insnCounter' = J.insnCounter
        /\ dataIn' = J.dataIn
        /\ dataOut' = J.dataOut
        /\ dataCounter' = J.dataCounter
        /\ idCode' = J.idCode
        /\ tapDataIn' = J.pdiDataIn
        /\ pdiState' = P.next
        /\ tapIssue' = P.tapIssue
        /\ tapDataOut' = P.tapDataOut
        /\ newCommand' = P.newCommand
        /\ needData' = P.needData
        /\ insnState' = I.next
        /\ writeCount' = IF I.setCounts THEN I.writeCount ELSE P.writeCount
        /\ readCount' = IF I.setCounts THEN I.readCount ELSE readCount
        /\ repCount' = I.repCount
        /\ repeatData' = I.repeatData
        /\ adState' = A.next
        /\ header' = A.header
        /\ resetIssue' = A.resetIssue
        /\ idCodeIssue' = A.idCodeIssue
        /\ pdiIssue' = A.pdiIssue
        /\ pdiCmd' = A.pdiCmd
        /\ pdiDataOut' = A.pdiDataOut
        /\ out_fifo' = IF A.r_en /\ out_fifo # <<>> THEN Tail(out_fifo)
                       ELSE out_fifo
        /\ in_fifo' = IF adState = "READ-HEADER" THEN <<>>
                      ELSE IF A.w_en THEN Append(in_fifo, A.w_data)
                      ELSE in_fifo
        /\ tgtState' = G.state
        /\ tgtInsn' = G.insn
        /\ tgtIR' = G.ir
        /\ tgtDR' = G.dr
        /\ tgtId' = tgtId
        /\ Seen(J, P, A)
        /\ UNCHANGED <<snVars, hsVars, cliVars, idVars, vcVars, dcVars, hostVars, dsVars, rtVars>>

\* ------------------------------------------------------------------- host
\* The host side of the byte stream, as _interactive_prompt and the tests
\* drive it: a request is a header byte; a PDI header is followed by an
\* opcode byte and by the data bytes _decode_counts gives for it.  The PDI
\* opcode bytes sent are STCS, a two-byte REPEAT and LDCS.  The host may
\* send a Reset header at any moment, giving up the request it was writing.
Opcodes == {192, 161, 128}
DataBytes == {253}

\* iface.write(): one more byte queued towards the adapter.
Queue(b) ==
    /\ Len(out_fifo) < MaxOutFifo
    /\ out_fifo' = Append(out_fifo, b)
    /\ UNCHANGED <<snVars, hsVars, cliVars, idVars, vcVars, dcVars, tapVars, pdiVars, adVars, tgtVars, seenVars,
                   dsVars, rtVars>>

HostReset ==
    /\ hostSent < MaxRequests
    /\ Queue(HDR_Reset)
    /\ hostPhase' = "header"
    /\ hostOwes' = 0
    /\ hostSent' = hostSent + 1

HostHeader(h) ==
    /\ hostPhase = "header"
    /\ hostSent < MaxRequests
    /\ Queue(h)
    /\ hostPhase' = IF h = HDR_PDI THEN "opcode" ELSE "header"
    /\ hostOwes' = 0
    /\ hostSent' = hostSent + 1

HostOpcode(op) ==
    LET counts == DecodeCounts(op \div 32, op % 16, 0)
    IN  /\ hostPhase = "opcode"
        /\ Queue(op)
        /\ hostPhase' = IF counts[2] # 0 THEN "data" ELSE "header"
        /\ hostOwes' = counts[2]
        /\ hostSent' = hostSent

HostData(d) ==
    /\ hostPhase = "data"
    /\ Queue(d)
    /\ hostPhase' = IF hostOwes = 1 THEN "header" ELSE "data"
    /\ hostOwes' = hostOwes - 1
    /\ hostSent' = hostSent

HostInit ==
    /\ hostPhase = "header"
    /\ hostOwes = 0
    /\ hostSent = 0

DrvInit ==
    /\ TapInit
    /\ PdiInit
    /\ AdInit
    /\ TgtInit
    /\ SeenInit
    /\ HostInit
    /\ out_fifo = <<>>

\* ------------------------------------------ host: the stream decoder
\* _write_pdi_vcd (__init__.py), the loop body for one byte of the stream the
\* sniffer sends.  Its locals are the fields of vcd.  repCount is a Python
\* integer that grows without bound; it is held as its bytes, the least
\* significant first and no zero byte at the top, so that equal values are
\* equal sequences.
RECURSIVE Canon(_)
Canon(digits) ==
    IF digits # <<>> /\ digits[Len(digits)] = 0
    THEN Canon(SubSeq(digits, 1, Len(digits) - 1))
    ELSE digits

\* The value of repCount as a number.
RECURSIVE PyValue(_)
PyValue(digits) ==
    IF digits = <<>> THEN 0 ELSE Head(digits) + 256 * PyValue(Tail(digits))

\* (count >> (8 * byte)) & 0xFF
ByteOf(count, byte) == IF byte < Len(count) THEN count[byte + 1] ELSE 0

\* A reversal that leaves the low byteCount bytes in place.
VcdReverseBad(count, byteCount) ==
    Canon([k \in 1 .. byteCount |-> ByteOf(count, k - 1)])

\* _reverse_count(count, byteCount) on the bytes of count: byte number
\* `byte` of count becomes byte number byteCount - byte - 1 of the result.
VcdReverse(count, byteCount) ==
    Canon([k \in 1 .. byteCount |-> ByteOf(count, byteCount - k)])

\* operation == 0: the byte is the header of the next record.
VcdHeader(v, byte) == [v EXCEPT !.operation = byte]

\* operation == Header.IDCode: one of the four bytes of the record.
VcdIdCode(v) ==
    IF v.count - 1 = 0 THEN [v EXCEPT !.operation = 0, !.count = 4]
    ELSE [v EXCEPT !.count = v.count - 1]

\* operation == Header.PDI with both counts 0: the byte is an opcode.  Only
\* the LD and ST handlers look at repCount.
VcdOpcode(v, byte) ==
    LET pdiInsn == (byte \div 32) % 8
        rep == IF pdiInsn \in {OP_LD, OP_ST} THEN PyValue(v.repCount) ELSE 0
        counts == DecodeCounts(pdiInsn, byte % 16, rep)
    IN  [v EXCEPT !.pdiInsn = pdiInsn,
                  !.readCount = counts[1],
                  !.writeCount = counts[2],
                  !.repCount = IF pdiInsn \in {OP_LD, OP_ST} THEN <<>> ELSE @]

\* Any other byte is a data byte of the transaction.
VcdData(v, byte) ==
    LET writes == IF v.writeCount # 0 THEN v.writeCount - 1 ELSE v.writeCount
        reads == IF v.writeCount # 0 THEN v.readCount ELSE v.readCount - 1
        isRepeat == v.pdiInsn = OP_REPEAT
        shifted == Canon(<<byte>> \o v.repCount)
        repBytes == v.repBytes + 1
        last == isRepeat /\ writes = 0
    IN  [v EXCEPT
            !.writeCount = writes,
            !.readCount = reads,
            !.repCount = IF last THEN VcdReverse(shifted, repBytes)
                         ELSE IF isRepeat THEN shifted ELSE @,
            !.repBytes = IF last THEN 0 ELSE IF isRepeat THEN repBytes ELSE @,
            !.operation = IF reads = 0 /\ writes = 0 THEN 0 ELSE @]

VcdByte(v, byte) ==
    IF v.operation = 0 THEN VcdHeader(v, byte)
    ELSE IF v.operation = HDR_IDCode THEN VcdIdCode(v)
    ELSE IF v.operation = HDR_PDI /\ v.readCount = 0 /\ v.writeCount = 0
    THEN VcdOpcode(v, byte)
    ELSE VcdData(v, byte)

\* What the decoder is about to do with the next byte.
VcdExpects(v) ==
    IF v.operation = 0 THEN "header"
    ELSE IF v.operation = HDR_IDCode THEN "idcode"
    ELSE IF v.operation = HDR_PDI /\ v.readCount = 0 /\ v.writeCount = 0
    THEN "opcode"
    ELSE "data"

VcInit ==
    /\ vcd = [operation |-> 0, count |-> 4, pdiInsn |-> OP_IDLE,
              readCount |-> 0, writeCount |-> 0, repCount |-> <<>>,
              repBytes |-> 0]
    /\ vcdByte = 0
    /\ vcdTaken = <<>>

\* The decoder takes one byte off the stream.  Beside its locals the record
\* of the run keeps the byte and, for a REPEAT, the count bytes taken so far.
VcdRead(byte) ==
    /\ vcd' = VcdByte(vcd, byte)
    /\ vcdByte' = byte
    /\ vcdTaken' = CASE VcdExpects(vcd) = "opcode" -> <<>>
                     [] VcdExpects(vcd) = "data" /\ vcd.pdiInsn = OP_REPEAT
                            -> Append(vcdTaken, byte)
                     [] OTHER -> vcdTaken

\* ------------------------------------------------- observer codec (sniffer)
\* PDIDissector and the PDI part of JTAGPDISnifferSubtarget, one DsCycle per
\* sync clock edge.  The observer TAP hands over a captured unit pair
\* (pdiDataIn from TDI, pdiDataOut from TDO) and pdiStrobe marks the cycle in
\* which the synchronised pdiReady falls; the registers below are read with
\* their values before the edge.  32-bit counters are integers, -1 standing
\* for 0xFFFFFFFF; repeatData is four bytes, index 1 = bits 0..7.
Xor9(u) == (Xor8(u % 256) + Bit(u, 8)) % 2
ParityInOK == Xor9(dsDataIn) = 0
ParityOutOK == Xor9(dsDataOut) = 0
DsSizeA == ((dsArgs \div 4) % 4) + 1
DsSizeB == (dsArgs % 4) + 1

DsPdiHold ==
    [next |-> dsState, opcode |-> dsOpcode, args |-> dsArgs, data |-> dsData,
     newCommand |-> dsNewCommand, readCount |-> dsReadCount,
     writeCount |-> dsWriteCount, sendHeader |-> FALSE, ready |-> FALSE,
     error |-> FALSE, updateCounts |-> FALSE, updateRepeat |-> FALSE]

DsPdiRESET == [DsPdiHold EXCEPT !.opcode = OP_IDLE, !.next = "IDLE"]

DsPdiIDLE(pdiStrobe) ==
    IF pdiStrobe THEN [DsPdiHold EXCEPT !.next = "CHECK-PARITY"] ELSE DsPdiHold

\* The parity check that lets every unit through.
DsCHECK_PARITYBad ==
    IF dsOpcode = OP_IDLE \/ dsWriteCount # 0
    THEN [DsPdiHold EXCEPT !.next = "HANDLE-WRITE"]
    ELSE [DsPdiHold EXCEPT !.next = "HANDLE-READ"]

DsCHECK_PARITY ==
    IF dsOpcode = OP_IDLE \/ dsWriteCount # 0
    THEN [DsPdiHold EXCEPT
            !.next = IF ParityInOK THEN "HANDLE-WRITE" ELSE "PARITY-ERROR"]
    ELSE [DsPdiHold EXCEPT
            !.next = IF ParityOutOK THEN "HANDLE-READ" ELSE "PARITY-ERROR"]

DsHANDLE_WRITE ==
    LET taken == IF dsOpcode = OP_IDLE
                 THEN [DsPdiHold EXCEPT !.data = dsDataIn % 256,
                                        !.opcode = (dsDataIn \div 32) % 8,
                                        !.args = dsDataIn % 16,
                                        !.newCommand = TRUE,
                                        !.sendHeader = TRUE,
                                        !.updateCounts = TRUE]
                 ELSE [DsPdiHold EXCEPT !.data = dsDataIn % 256,
                                        !.writeCount = Dec32(dsWriteCount)]
    IN  [taken EXCEPT !.updateRepeat = (dsOpcode = OP_REPEAT),
                      !.next = "SEND-DATA"]

DsHANDLE_READ ==
    [DsPdiHold EXCEPT !.data = dsDataOut % 256,
                      !.readCount = Dec32(dsReadCount),
                      !.next = "SEND-DATA"]

\* The end of a unit that never re-arms the counters for a repeat.
DsSEND_DATABad ==
    LET over == ~dsUpdateCountsNext /\ dsWriteCount = 0 /\ dsReadCount = 0
    IN  [DsPdiHold EXCEPT !.opcode = IF over THEN OP_IDLE ELSE @,
                          !.ready = TRUE,
                          !.next = "IDLE"]

DsSEND_DATA ==
    LET over == ~dsUpdateCountsNext /\ dsWriteCount = 0 /\ dsReadCount = 0
    IN  [DsPdiHold EXCEPT
            !.newCommand = IF over /\ dsRepCount # 0 THEN FALSE ELSE @,
            !.updateCounts = over /\ dsRepCount # 0,
            !.opcode = IF over /\ dsRepCount = 0 THEN OP_IDLE ELSE @,
            !.ready = TRUE,
            !.next = "IDLE"]

DsPARITY_ERROR ==
    [DsPdiHold EXCEPT !.error = TRUE, !.opcode = OP_IDLE, !.next = "IDLE"]

DsPdiFsm(pdiStrobe) ==
    CASE dsState = "RESET"        -> DsPdiRESET
      [] dsState = "IDLE"         -> DsPdiIDLE(pdiStrobe)
      [] dsState = "CHECK-PARITY" -> DsCHECK_PARITY
      [] dsState = "HANDLE-WRITE" -> DsHANDLE_WRITE
      [] dsState = "HANDLE-READ"  -> DsHANDLE_READ
      [] dsState = "SEND-DATA"    -> DsSEND_DATA
      [] dsState = "PARITY-ERROR" -> DsPARITY_ERROR

\* insnFSM.  counts tells whether the state assigns the two counters.
DsInsnHold ==
    [next |-> dsInsnState, counts |-> FALSE, writeCount |-> 0, readCount |-> 0,
     repCount |-> dsRepCount, repeatData |-> dsRepeatData]

DsInsnCounts(w, r) ==
    [DsInsnHold EXCEPT !.counts = TRUE, !.writeCount = w, !.readCount = r,
                       !.next = "IDLE"]

DsInsnIDLE(updateCounts) ==
    IF updateCounts THEN [DsInsnHold EXCEPT !.next = "DECODE"] ELSE DsInsnHold

DsInsnDECODE ==
    [DsInsnHold EXCEPT !.next =
        CASE dsOpcode = OP_LDS    -> "LDS"
          [] dsOpcode = OP_LD     -> "LD"
          [] dsOpcode = OP_STS    -> "STS"
          [] dsOpcode = OP_ST     -> "ST"
          [] dsOpcode = OP_LDCS   -> "LDCS"
          [] dsOpcode = OP_STCS   -> "STCS"
          [] dsOpcode = OP_REPEAT -> "REPEAT"
          [] dsOpcode = OP_KEY    -> "KEY"
          [] OTHER                -> "DECODE"]

DsInsnLDS == DsInsnCounts(DsSizeA, DsSizeB)
DsInsnLD ==
    [DsInsnCounts(0, DsSizeB) EXCEPT
        !.repCount = IF dsRepCount # 0 /\ ~dsNewCommand
                     THEN Dec32(dsRepCount) ELSE @]
DsInsnSTS == DsInsnCounts(DsSizeA + DsSizeB, 0)
DsInsnST ==
    [DsInsnCounts(DsSizeB, 0) EXCEPT
        !.repCount = IF dsRepCount # 0 /\ ~dsNewCommand
                     THEN Dec32(dsRepCount) ELSE @]
DsInsnLDCS == DsInsnCounts(0, 1)
DsInsnSTCS == DsInsnCounts(1, 0)
DsInsnREPEAT == [DsInsnCounts(DsSizeB, 0) EXCEPT !.next = "CAPTURE-REPEAT"]
DsInsnKEY == DsInsnCounts(8, 0)

DsCAPTURE_REPEAT(updateRepeat) ==
    IF updateRepeat
    THEN [DsInsnHold EXCEPT
            !.repeatData = <<dsDataIn % 256, dsRepeatData[1], dsRepeatData[2],
                             dsRepeatData[3]>>,
            !.next = IF dsWriteCount = 1 THEN "UPDATE-REPEAT" ELSE @]
    ELSE DsInsnHold

DsUPDATE_REPEAT ==
    [DsInsnHold EXCEPT
        !.repCount =
            CASE dsArgs % 4 = 0 -> dsRepeatData[1]
              [] dsArgs % 4 = 1 -> dsRepeatData[2] + 256 * dsRepeatData[1]
              [] dsArgs % 4 = 2 -> dsRepeatData[3] + 256 * dsRepeatData[2]
                                   + 65536 * dsRepeatData[1]
              [] dsArgs % 4 = 3 -> dsRepeatData[3] + 256 * dsRepeatData[4]
                                   + 65536 * dsRepeatData[3]
                                   + 16777216 * dsRepeatData[2],
        !.next = "IDLE"]

DsInsnFsm(updateCounts, updateRepeat) ==
    CASE dsInsnState = "IDLE"           -> DsInsnIDLE(updateCounts)
      [] dsInsnState = "DECODE"         -> DsInsnDECODE
      [] dsInsnState = "LDS"            -> DsInsnLDS
      [] dsInsnState = "LD"             -> DsInsnLD
      [] dsInsnState = "STS"            -> DsInsnSTS
      [] dsInsnState = "ST"             -> DsInsnST
      [] dsInsnState = "LDCS"           -> DsInsnLDCS
      [] dsInsnState = "STCS"           -> DsInsnSTCS
      [] dsInsnState = "REPEAT"         -> DsInsnREPEAT
      [] dsInsnState = "KEY"            -> DsInsnKEY
      [] dsInsnState = "CAPTURE-REPEAT" -> DsCAPTURE_REPEAT(updateRepeat)
      [] dsInsnState = "UPDATE-REPEAT"  -> DsUPDATE_REPEAT

\* A subtarget FSM that leaves PDI-HEADER for IDLE whether or not a byte is
\* ready.
SfFsmBad(idCodeStrobe, sendHeader, ready) ==
    CASE sfState = "IDLE" ->
            [next |-> IF idCodeStrobe THEN "IDCODE-HEADER"
                      ELSE IF sendHeader THEN "PDI-HEADER"
                      ELSE IF ready THEN "PDI-DATA" ELSE "IDLE",
             w_data |-> -1]
      [] sfState = "IDCODE-HEADER" ->
            [next |-> "IDCODE-DATA-3", w_data |-> HDR_IDCode]
      [] sfState = "IDCODE-DATA-3" ->
            [next |-> "IDCODE-DATA-2",
             w_data |-> BitsToNat(Slice(snIdCode, 24, 32))]
      [] sfState = "IDCODE-DATA-2" ->
            [next |-> "IDCODE-DATA-1",
             w_data |-> BitsToNat(Slice(snIdCode, 16, 24))]
      [] sfState = "IDCODE-DATA-1" ->
            [next |-> "IDCODE-DATA-0",
             w_data |-> BitsToNat(Slice(snIdCode, 8, 16))]
      [] sfState = "IDCODE-DATA-0" ->
            [next |-> "IDLE", w_data |-> BitsToNat(Slice(snIdCode, 0, 8))]
      [] sfState = "PDI-HEADER" ->
            [next |-> "IDLE", w_data |-> HDR_PDI]
      [] sfState = "PDI-DATA" ->
            [next |-> "IDLE", w_data |-> dsData]

\* The subtarget FSM that writes the event stream: next state, and the byte
\* written this cycle (-1 for none).  tap.idCode is the observer TAP's
\* snIdCode.
SfFsm(idCodeStrobe, sendHeader, ready) ==
    CASE sfState = "IDLE" ->
            [next |-> IF idCodeStrobe THEN "IDCODE-HEADER"
                      ELSE IF sendHeader THEN "PDI-HEADER"
                      ELSE IF ready THEN "PDI-DATA" ELSE "IDLE",
             w_data |-> -1]
      [] sfState = "IDCODE-HEADER" ->
            [next |-> "IDCODE-DATA-3", w_data |-> HDR_IDCode]
      [] sfState = "IDCODE-DATA-3" ->
            [next |-> "IDCODE-DATA-2",
             w_data |-> BitsToNat(Slice(snIdCode, 24, 32))]
      [] sfState = "IDCODE-DATA-2" ->
            [next |-> "IDCODE-DATA-1",
             w_data |-> BitsToNat(Slice(snIdCode, 16, 24))]
      [] sfState = "IDCODE-DATA-1" ->
            [next |-> "IDCODE-DATA-0",
             w_data |-> BitsToNat(Slice(snIdCode, 8, 16))]
      [] sfState = "IDCODE-DATA-0" ->
            [next |-> "IDLE", w_data |-> BitsToNat(Slice(snIdCode, 0, 8))]
      [] sfState = "PDI-HEADER" ->
            [next |-> IF ready THEN "PDI-DATA" ELSE "IDLE", w_data |-> HDR_PDI]
      [] sfState = "PDI-DATA" ->
            [next |-> "IDLE", w_data |-> dsData]

\* The registers after one sync edge.
DsRegs ==
    <<dsState, dsInsnState, dsOpcode, dsArgs, dsData, dsReadCount,
      dsWriteCount, dsRepCount, dsNewCommand, dsUpdateCountsNext,
      dsRepeatData, sfState>>

DsRegsNext(pdiStrobe, idCodeStrobe) ==
    LET P == DsPdiFsm(pdiStrobe)
        I == DsInsnFsm(P.updateCounts, P.updateRepeat)
        S == SfFsm(idCodeStrobe, P.sendHeader, P.ready)
    IN  <<P.next, I.next, P.opcode, P.args, P.data,
          IF I.counts THEN I.readCount ELSE P.readCount,
          IF I.counts THEN I.writeCount ELSE P.writeCount,
          I.repCount, P.newCommand, P.updateCounts, I.repeatData, S.next>>

\* Nothing is in progress: a cycle without a strobe changes no register.
DsQuiet == dsState = "IDLE" /\ DsRegsNext(FALSE, FALSE) = DsRegs

DsInit ==
    /\ dsState = "RESET"
    /\ dsInsnState = "IDLE"
    /\ dsOpcode = 0
    /\ dsArgs = 0
    /\ dsData = 0
    /\ dsReadCount = 0
    /\ dsWriteCount = 0
    /\ dsRepCount = 0
    /\ dsNewCommand = FALSE
    /\ dsUpdateCountsNext = FALSE
    /\ dsRepeatData = <<0, 0, 0, 0>>
    /\ dsDataIn = 0
    /\ dsDataOut = 0
    /\ sfState = "IDLE"
    /\ sfStream = <<>>
    /\ obUnits = 0
    /\ obOp = OP_IDLE
    /\ obHeld = 0
    /\ obWritten = <<>>
    /\ obReads = 0
    /\ obErrs = 0
    /\ obAborted = FALSE
    /\ obAfterErr = FALSE
    /\ obError = FALSE
    /\ obFlips = 0
    /\ obDone = FALSE
    /\ obKind = "none"
    /\ obIds = 0
    /\ obRearmed = FALSE
    /\ obMiscount = FALSE

\* The count a sequence of count bytes stands for, the first byte on the wire
\* the least significant.
RECURSIVE WireCount(_)
WireCount(bytes) ==
    IF bytes = <<>> THEN 0 ELSE Head(bytes) + 256 * WireCount(Tail(bytes))

\* One sync edge.  What the observation has seen is kept beside the
\* registers: the units captured so far (obUnits), the opcode last accepted
\* (obOp), the repeat count held when it was accepted (obHeld), the bytes
\* taken as write data (obWritten) and the number taken as read data
\* (obReads) since then, the parity errors so far (obErrs), whether one fell
\* in this transaction (obAborted), whether this transaction's opcode was the
\* first one accepted after a parity error (obAfterErr), whether the error
\* output was raised for the last unit (obError), and the bytes written to the
\* FIFO for the last unit (sfStream).  obFlips counts the units that came
\* with a flipped bit.  obDone tells that the last unit was a data unit at
\* whose SEND-DATA both counters had reached 0 with nothing left to repeat:
\* the repeat count 0, or the opcode neither LD nor ST.  obKind tells what
\* the codec took the last capture for, obIds counts the identification
\* captures.  obRearmed tells that SEND-DATA has re-armed the decode, both
\* counters 0 and the repeat count not, for an opcode that is neither LD nor
\* ST.  obMiscount tells that UPDATE-REPEAT has loaded a repeat count that is
\* not the count the bytes taken stand for.
DsCycle(pdiStrobe, idCodeStrobe, unitIn, unitOut) ==
    LET P == DsPdiFsm(pdiStrobe)
        S == SfFsm(idCodeStrobe, P.sendHeader, P.ready)
        R == DsRegsNext(pdiStrobe, idCodeStrobe)
        accept == dsState = "HANDLE-WRITE" /\ dsOpcode = OP_IDLE
        write  == dsState = "HANDLE-WRITE" /\ dsOpcode # OP_IDLE
        read   == dsState = "HANDLE-READ"
    IN  /\ dsState' = R[1]
        /\ dsInsnState' = R[2]
        /\ dsOpcode' = R[3]
        /\ dsArgs' = R[4]
        /\ dsData' = R[5]
        /\ dsReadCount' = R[6]
        /\ dsWriteCount' = R[7]
        /\ dsRepCount' = R[8]
        /\ dsNewCommand' = R[9]
        /\ dsUpdateCountsNext' = R[10]
        /\ dsRepeatData' = R[11]
        /\ sfState' = R[12]
        /\ dsDataIn' = IF pdiStrobe THEN unitIn ELSE dsDataIn
        /\ dsDataOut' = IF pdiStrobe THEN unitOut ELSE dsDataOut
        /\ sfStream' = IF pdiStrobe \/ idCodeStrobe THEN <<>>
                       ELSE IF S.w_data # -1 THEN Append(sfStream, S.w_data)
                       ELSE sfStream
        /\ obUnits' = IF pdiStrobe THEN obUnits + 1 ELSE obUnits
        /\ obOp' = IF accept THEN P.opcode ELSE obOp
        /\ obHeld' = IF accept THEN dsRepCount ELSE obHeld
        /\ obWritten' = IF accept THEN <<>>
                        ELSE IF write THEN Append(obWritten, dsDataIn % 256)
                        ELSE obWritten
        /\ obReads' = IF accept THEN 0
                      ELSE IF read THEN obReads + 1 ELSE obReads
        /\ obErrs' = IF P.error THEN obErrs + 1 ELSE obErrs
        /\ obAborted' = IF accept THEN FALSE
                        ELSE IF P.error THEN TRUE ELSE obAborted
        /\ obAfterErr' = IF accept THEN obAborted ELSE obAfterErr
        /\ obError' = IF pdiStrobe THEN FALSE
                      ELSE IF P.error THEN TRUE ELSE obError
        /\ obDone' = IF pdiStrobe THEN FALSE
                     ELSE IF dsState = "SEND-DATA"
                          THEN /\ obReads + Len(obWritten) > 0
                               /\ dsWriteCount = 0 /\ dsReadCount = 0
                               /\ dsRepCount = 0 \/ dsOpcode \notin {OP_LD, OP_ST}
                          ELSE obDone
        /\ obKind' = CASE pdiStrobe    -> "unit"
                       [] idCodeStrobe -> "idcode"
                       [] accept       -> "opcode"
                       [] write        -> "write"
                       [] read         -> "read"
                       [] P.error      -> "error"
                       [] OTHER        -> obKind
        /\ obIds' = IF idCodeStrobe THEN obIds + 1 ELSE obIds
        /\ obRearmed' = \/ obRearmed
                        \/ /\ dsState = "SEND-DATA" /\ P.updateCounts
                           /\ dsOpcode \notin {OP_LD, OP_ST}
        /\ obMiscount' = \/ obMiscount
                         \/ /\ dsInsnState = "UPDATE-REPEAT"
                            /\ R[8] # WireCount(obWritten)

\* The byte the subtarget writes to the FIFO in this cycle (-1 for none), and
\* the host's stream decoder taking each byte as it is written.
SfWritten == SfFsm(FALSE, FALSE, FALSE).w_data
HostTakes == IF SfWritten # -1 THEN VcdRead(SfWritten) ELSE UNCHANGED vcVars

\* The units the observer TAP may capture.  While the codec is waiting for
\* an opcode the TDI side carries one of ObsBytes (LD of two bytes, ST of one
\* byte, LDCS, REPEAT with 1, 2 and 4 count bytes, STCS); while it is
\* capturing a repeat count the TDI side carries one of CountBytes; any other
\* data unit, whose value has no effect on the codec, carries DataByte.  With
\* the stream decoder behind the sniffer the opcode may also be one of
\* StreamBytes (LDS with two address bytes, STS with two address and two data
\* bytes, KEY).  The TDO side carries ReplyByte.  Either side may come with
\* its lowest data bit or its parity bit flipped, in at most MaxFlips units
\* of a run.
ObsBytes == {33, 96, 128, 160, 161, 163, 192}
StreamBytes == {4, 69, 224}
CountBytes == {0, 1, 2}
DataByte == 253
ReplyByte == 235
FlipBits == {0, 8}
Flip(u, k) == IF Bit(u, k) = 1 THEN u - 2^k ELSE u + 2^k

\* A data-register scan under PDICOM has ended: the strobe cycle.  Scans are
\* many sync cycles apart, so the codec has come to rest before the next one.
DsUnit(b, side, k) ==
    /\ DsQuiet
    /\ obUnits < MaxUnits
    /\ side # "none" => obFlips < MaxFlips
    /\ b \in CASE dsOpcode = OP_IDLE   -> ObsBytes \cup StreamBytes
              [] dsOpcode = OP_REPEAT -> CountBytes
              [] OTHER                -> {DataByte}
    /\ obFlips' = IF side = "none" THEN obFlips ELSE obFlips + 1
    /\ UNCHANGED snVars
    /\ DsCycle(TRUE, FALSE,
               IF side = "in" THEN Flip(Unit(b), k) ELSE Unit(b),
               IF side = "out" THEN Flip(Unit(ReplyByte), k) ELSE Unit(ReplyByte))

\* A sync cycle without a strobe, while something is in progress.
DsStep ==
    /\ ~DsQuiet
    /\ DsCycle(FALSE, FALSE, 0, 0)
    /\ UNCHANGED <<snVars, obFlips>>

\* A data-register scan under IDCODE has ended: the observer TAP has
\* published the value it shifted and idCodeStrobe marks the cycle in which
\* its idCodeReady falls.  The identification register is read between PDI
\* transactions.
DsIdCode(id) ==
    /\ DsQuiet
    /\ dsOpcode = OP_IDLE
    /\ obIds < MaxIds
    /\ snIdCode' = NatToBits(id[1], 8) \o NatToBits(id[2], 8)
                   \o NatToBits(id[3], 8) \o NatToBits(id[4], 8)
    /\ UNCHANGED <<snState, snShiftDR, snShiftIR, snInsn, snInsnNext, snPrev,
                   snTms, snTrace, snVisIR, snVisDR, snDataIn, snDataOut,
                   snPdiDataIn, snPdiDataOut, snFresh, obFlips>>
    /\ DsCycle(FALSE, TRUE, 0, 0)

\* ------------------------------------------- host repeat count (__init__.py)
\* _to_bytes(length, value): the low byte first.
RECURSIVE ToBytes(_, _)
ToBytes(length, value) ==
    IF length = 0 THEN <<>>
    ELSE <<value % 256>> \o ToBytes(length - 1, value \div 256)

\* The loop of _reverse_count from byte on.  value << shift lands on a byte of
\* result that is still 0, so the OR is a sum.
RECURSIVE ReverseLoop(_, _, _, _)
ReverseLoop(count, byteCount, byte, result) ==
    IF byte = byteCount THEN result
    ELSE ReverseLoop(count, byteCount, byte + 1,
                     result + ((count \div (256 ^ byte)) % 256)
                              * (256 ^ (byteCount - byte - 1)))

\* A reversal that leaves the low byteCount bytes where they are.
ReverseCountBad(count, byteCount) == count % (256 ^ byteCount)

\* _reverse_count(count, byteCount)
ReverseCount(count, byteCount) == ReverseLoop(count, byteCount, 0, 0)

\* The byte values the counts are built from, and the counts of byteCount
\* bytes built from them; a four byte count keeps its first and last byte
\* below 128.
RtDigits == {0, 1, 127, 255}
RECURSIVE RtCounts(_)
RtCounts(byteCount) ==
    IF byteCount = 0 THEN {0}
    ELSE {d + 256 * c : d \in RtDigits, c \in RtCounts(byteCount - 1)}
RtValues(byteCount) ==
    IF byteCount < 4 THEN RtCounts(byteCount)
    ELSE {c + 16777216 * d : c \in {x \in RtCounts(3) : (x % 256) < 128},
                             d \in {x \in RtDigits : x < 128}}

RtInit ==
    /\ rtSize \in 1 .. 4
    /\ rtValue \in RtValues(rtSize)
    /\ rtPhase = "encode"
    /\ rtBytes = <<>>
    /\ rtSent = 0
    /\ rtAcc = 0
    /\ rtCount = 0
    /\ rtTwice = 0

\* The repeat command encodes its count (_parse_command: _to_bytes).
RtEncode ==
    /\ rtPhase = "encode"
    /\ rtBytes' = ToBytes(rtSize, rtValue)
    /\ rtPhase' = "wire"
    /\ UNCHANGED <<rtSize, rtValue, rtSent, rtAcc, rtCount, rtTwice>>

\* _write_pdi_vcd takes the next count byte off the stream; after the last
\* one it reverses what it has accumulated.
RtByte ==
    /\ rtPhase = "wire"
    /\ rtSent' = rtSent + 1
    /\ rtAcc' = rtAcc * 256 + rtBytes[rtSent + 1]
    /\ IF rtSent + 1 = rtSize
       THEN /\ rtCount' = ReverseCount(rtAcc', rtSent + 1)
            /\ rtPhase' = "decoded"
       ELSE UNCHANGED <<rtCount, rtPhase>>
    /\ UNCHANGED <<rtSize, rtValue, rtBytes, rtTwice>>

\* _reverse_count applied twice to the count.
RtTwice ==
    /\ rtPhase = "decoded"
    /\ rtTwice' = ReverseCount(ReverseCount(rtValue, rtSize), rtSize)
    /\ rtPhase' = "done"
    /\ UNCHANGED <<rtSize, rtValue, rtBytes, rtSent, rtAcc, rtCount>>

\* ------------------------------------------------- host: the command prompt
\* A line is the sequence of its whitespace separated parts; a part is the
\* sequence of its characters.  A Python value a function returns is a record:
\* an int, a str (the message), or the exception it raised.
PyInt(n) == [t |-> "int", v |-> n, msg |-> ""]
PyStr(m) == [t |-> "str", v |-> 0, msg |-> m]
Raised(m) == [t |-> "raise", v |-> 0, msg |-> m]
IsInt(r) == r.t = "int"

DecDigits == <<"0", "1", "2", "3", "4", "5", "6", "7", "8", "9">>
HexLetters == <<"a", "b", "c", "d", "e", "f">>
UpperLetters == <<"A", "B", "C", "D", "E", "F", "L", "P", "R", "S", "T", "X">>
LowerLetters == <<"a", "b", "c", "d", "e", "f", "l", "p", "r", "s", "t", "x">>

IndexOf(c, chars) == CHOOSE i \in 1 .. Len(chars) : chars[i] = c
IsIn(c, chars) == \E i \in 1 .. Len(chars) : chars[i] = c

\* str.lower()
LowerChar(c) == IF IsIn(c, UpperLetters) THEN LowerLetters[IndexOf(c, UpperLetters)] ELSE c
Lower(s) == [i \in 1 .. Len(s) |-> LowerChar(s[i])]

\* str.startswith(prefix) and the rest of the string after its first n chars
StartsWith(s, prefix) ==
    Len(s) >= Len(prefix) /\ SubSeq(s, 1, Len(prefix)) = prefix
From(s, n) == SubSeq(s, n + 1, Len(s))

\* str.isdecimal() / str.isnumeric() on the characters used here
IsDecimal(s) == s # <<>> /\ \A i \in 1 .. Len(s) : IsIn(s[i], DecDigits)

HexVal(c) == IF IsIn(c, DecDigits) THEN IndexOf(c, DecDigits) - 1
             ELSE IndexOf(c, HexLetters) + 9

\* int(s, base) of a string of digits of that base, most significant first
RECURSIVE DigitsValue(_, _)
DigitsValue(s, base) ==
    IF s = <<>> THEN 0
    ELSE DigitsValue(SubSeq(s, 1, Len(s) - 1), base) * base + HexVal(s[Len(s)])

\* _parse_number
ParseNumber(value) ==
    IF StartsWith(value, <<"0", "x">>)
    THEN LET digits == Lower(From(value, 2))
         IN  IF \E i \in 1 .. Len(digits) :
                    ~(IsIn(digits[i], DecDigits) \/ IsIn(digits[i], HexLetters))
             THEN PyStr("Invalid hexadecimal value")
             ELSE IF digits = <<>>
             THEN Raised("ValueError")
             ELSE PyInt(DigitsValue(digits, 16))
    ELSE IF IsDecimal(value) THEN PyInt(DigitsValue(value, 10))
    ELSE PyStr("Invalid number")

\* _encode_csreg
EncodeCsreg(register) ==
    IF register = <<"s", "t", "a", "t", "u", "s">> THEN PyInt(0)
    ELSE IF register = <<"r", "e", "s", "e", "t">> THEN PyInt(1)
    ELSE IF register = <<"c", "t", "r", "l">> THEN PyInt(2)
    ELSE IF IsDecimal(register) THEN PyInt(DigitsValue(register, 10))
    ELSE PyStr("Invalid Control/Status register value given")

\* _encode_opcode(opcode, address = address)
EncodeOpcodeAddr(opcode, address) ==
    IF address # 0
    THEN IF address > 15 THEN PyStr("Invalid Control/Status register address")
         ELSE PyInt(opcode * 32 + address)
    ELSE PyInt(opcode * 32)

\* _encode_opcode(opcode, sizeA = sizeA, sizeB = sizeB)
EncodeOpcodeSizes(opcode, sizeA, sizeB) ==
    IF sizeA = 0 \/ sizeB = 0 THEN PyStr("Size value cannot be 0")
    ELSE IF sizeA > 4 \/ sizeB > 4
    THEN PyStr("Size value too large, cannot be more than 4")
    ELSE PyInt(opcode * 32 + (sizeA - 1) * 4 + (sizeB - 1))

\* _parse_ptr
ParsePtr(value) ==
    LET access == Lower(value)
    IN  IF access \in {<<"*", "p", "t", "r">>, <<"*", "(", "p", "t", "r", ")">>}
        THEN PyInt(1)
        ELSE IF access \in {<<"*", "p", "t", "r", "+", "+">>,
                            <<"*", "(", "p", "t", "r", "+", "+", ")">>}
        THEN PyInt(2)
        ELSE IF access = <<"p", "t", "r">> THEN PyInt(3)
        ELSE IF access = <<"p", "t", "r", "+", "+">> THEN PyInt(4)
        ELSE PyStr("Invalid pointer access")

\* _least_bytes_for
LeastBytesFor(value) ==
    IF value < 256 THEN PyInt(1)
    ELSE IF value < 65536 THEN PyInt(2)
    ELSE IF value < 16777216 THEN PyInt(3)
    ELSE PyInt(4)

\* _suffix_to_bytes
SuffixToBytes(suffix) ==
    IF suffix = <<"u", "8">> THEN PyInt(1)
    ELSE IF suffix = <<"u", "1", "6">> THEN PyInt(2)
    ELSE IF suffix = <<"u", "2", "4">> THEN PyInt(3)
    ELSE IF suffix = <<"u", "3", "2">> THEN PyInt(4)
    ELSE PyStr("Invalid instruction suffix")

\* What _parse_command hands back, with the session repeat count it leaves:
\* a tuple (operation, readCount), a message, or an exception.  An element of
\* operation that is not an int (a message _encode_opcode returned) is
\* NotAByte.  The repeat count is Unset until the first assignment to
\* __repeatCount, which nothing makes before _parse_command.
NotAByte == -1
Unset == -1
Accept(op, reads, rep) ==
    [t |-> "ok", op |-> op, reads |-> reads, msg |-> "", rep |-> rep]
Reject(r, rep) ==
    [t |-> r.t, op |-> <<>>, reads |-> 0, msg |-> r.msg, rep |-> rep]
Elem(r) == IF IsInt(r) THEN r.v ELSE NotAByte

\* [self._parse_number(part) for part in parts[2:]]
DataOf(parts) == [i \in 1 .. (Len(parts) - 2) |-> ParseNumber(parts[i + 2])]

\* _check_data: the message for the first value that is not an int or not a
\* single byte, PyInt(0) for None.
CheckData(data) ==
    LET bad == {i \in 1 .. Len(data) :
                   ~IsInt(data[i]) \/ LeastBytesFor(data[i].v).v # 1}
        first == CHOOSE i \in bad : \A j \in bad : i <= j
    IN  IF bad = {} THEN PyInt(0)
        ELSE IF ~IsInt(data[first]) THEN PyStr("value for data byte is not a number")
        ELSE PyStr("Value is not a single byte")

\* The values of a checked data list.
Values(data) == [i \in 1 .. Len(data) |-> data[i].v]

\* Building the data list raises when a _parse_number call raises.
DataRaises(data) == \E i \in 1 .. Len(data) : data[i].t = "raise"

NvmKey == <<255, 136, 216, 205, 69, 171, 137, 18>>
DebugKey == <<33, 129, 124, 159, 212, 45, 33, 58>>

ParseLds(parts, command, rep) ==
    IF Len(parts) # 2
    THEN Reject(PyStr("Incorrect number of arguments to LDS instruction"), rep)
    ELSE LET sizeB == SuffixToBytes(From(command, 4))
             address == ParseNumber(parts[2])
             sizeA == LeastBytesFor(address.v)
         IN  IF ~IsInt(sizeB) THEN Reject(sizeB, rep)
             ELSE IF ~IsInt(address) THEN Reject(address, rep)
             ELSE Accept(<<Elem(EncodeOpcodeSizes(OP_LDS, sizeA.v, sizeB.v))>>
                         \o ToBytes(sizeA.v, address.v), sizeB.v, rep)

ParseSts(parts, command, rep) ==
    IF Len(parts) < 2
    THEN Reject(PyStr("Incorrect number of arguments to STS instruction"), rep)
    ELSE LET sizeB == SuffixToBytes(From(command, 4))
             address == ParseNumber(parts[2])
             sizeA == LeastBytesFor(address.v)
             data == DataOf(parts)
             check == CheckData(data)
         IN  IF ~IsInt(sizeB) THEN Reject(sizeB, rep)
             ELSE IF Len(parts) > 2 + sizeB.v
             THEN Reject(PyStr("Incorrect number of arguments to STS instruction"), rep)
             ELSE IF ~IsInt(address) THEN Reject(address, rep)
             ELSE IF DataRaises(data) THEN Reject(Raised("ValueError"), rep)
             ELSE IF check.t = "str" THEN Reject(check, rep)
             ELSE Accept(<<Elem(EncodeOpcodeSizes(OP_STS, sizeA.v, sizeB.v))>>
                         \o ToBytes(sizeA.v, address.v) \o Values(data), 0, rep)

ParseLd(parts, rep) ==
    IF Len(parts) # 2
    THEN Reject(PyStr("Incorrect number of arguments to LD instruction"), rep)
    ELSE IF rep = Unset THEN Reject(Raised("AttributeError"), rep)
    ELSE LET repeats == rep + 1
             access == ParsePtr(parts[2])
         IN  IF ~IsInt(access) THEN Reject(access, 0)
             ELSE Accept(<<Elem(EncodeOpcodeSizes(OP_LD, access.v, 1))>>, repeats, 0)

ParseLdSuffix(parts, command, rep) ==
    IF Len(parts) # 2
    THEN Reject(PyStr("Incorrect number of arguments to LD instruction"), rep)
    ELSE IF rep = Unset THEN Reject(Raised("AttributeError"), rep)
    ELSE IF rep # 0
    THEN Reject(PyStr("Attempting to repeat complex LD instruction"), rep)
    ELSE LET sizeB == SuffixToBytes(From(command, 3))
             access == ParsePtr(parts[2])
         IN  IF ~IsInt(sizeB) THEN Reject(sizeB, rep)
             ELSE IF ~IsInt(access) THEN Reject(access, rep)
             ELSE Accept(<<Elem(EncodeOpcodeSizes(OP_LD, access.v, sizeB.v))>>,
                         sizeB.v, rep)

ParseSt(parts, rep) ==
    IF Len(parts) < 2
    THEN Reject(PyStr("Incorrect number of arguments to ST instruction"), rep)
    ELSE IF rep = Unset THEN Reject(Raised("AttributeError"), rep)
    ELSE LET repeats == rep + 1
             access == ParsePtr(parts[2])
             data == DataOf(parts)
             check == CheckData(data)
         IN  IF Len(parts) > 2 + repeats
             THEN Reject(PyStr("Incorrect number of arguments to ST instruction"), 0)
             ELSE IF ~IsInt(access) THEN Reject(access, 0)
             ELSE IF DataRaises(data) THEN Reject(Raised("ValueError"), 0)
             ELSE IF check.t = "str" THEN Reject(check, 0)
             ELSE Accept(<<Elem(EncodeOpcodeSizes(OP_ST, access.v, 1))>>
                         \o Values(data), 0, 0)

ParseStSuffix(parts, command, rep) ==
    IF Len(parts) # 3
    THEN Reject(PyStr("Incorrect number of arguments to ST instruction"), rep)
    ELSE IF rep = Unset THEN Reject(Raised("AttributeError"), rep)
    ELSE IF rep # 0
    THEN Reject(PyStr("Attempting to repeat complex ST instruction"), rep)
    ELSE LET sizeB == SuffixToBytes(From(command, 3))
             access == ParsePtr(parts[2])
             data == DataOf(parts)
             check == CheckData(data)
         IN  IF ~IsInt(sizeB) THEN Reject(sizeB, rep)
             ELSE IF Len(parts) > 2 + sizeB.v
             THEN Reject(PyStr("Incorrect number of arguments to ST instruction"), rep)
             ELSE IF ~IsInt(access) THEN Reject(access, rep)
             ELSE IF DataRaises(data) THEN Reject(Raised("ValueError"), rep)
             ELSE IF check.t = "str" THEN Reject(check, rep)
             ELSE Accept(<<Elem(EncodeOpcodeSizes(OP_ST, access.v, sizeB.v))>>
                         \o Values(data), 0, rep)

ParseLdcs(parts, rep) ==
    IF Len(parts) # 2
    THEN Reject(PyStr("Incorrect number of arguments to LDCS instruction"), rep)
    ELSE LET reg == EncodeCsreg(parts[2])
         IN  IF ~IsInt(reg) THEN Reject(reg, rep)
             ELSE Accept(<<Elem(EncodeOpcodeAddr(OP_LDCS, reg.v))>>, 1, rep)

ParseStcs(parts, rep) ==
    IF Len(parts) # 3
    THEN Reject(PyStr("Incorrect number of arguments to STCS instruction"), rep)
    ELSE LET reg == EncodeCsreg(parts[2])
             value == ParseNumber(parts[3])
             check == CheckData(<<value>>)
         IN  IF ~IsInt(reg) THEN Reject(reg, rep)
             ELSE IF value.t = "raise" THEN Reject(value, rep)
             ELSE IF check.t = "str" THEN Reject(check, rep)
             ELSE Accept(<<Elem(EncodeOpcodeAddr(OP_STCS, reg.v)), value.v>>, 0, rep)

ParseRepeat(parts, rep) ==
    IF Len(parts) # 2
    THEN Reject(PyStr("Incorrect number of arguments to REPEAT instruction"), rep)
    ELSE LET repeats == ParseNumber(parts[2])
             sizeB == LeastBytesFor(repeats.v)
         IN  IF ~IsInt(repeats) THEN Reject(repeats, rep)
             ELSE Accept(<<Elem(EncodeOpcodeSizes(OP_REPEAT, 1, sizeB.v))>>
                         \o ToBytes(sizeB.v, repeats.v), 0, repeats.v)

ParseKey(parts, rep) ==
    IF Len(parts) # 2
    THEN Reject(PyStr("Incorrect number of arguments to KEY instruction"), rep)
    ELSE LET which == Lower(parts[2])
         IN  IF which = <<"n", "v", "m">>
             THEN Accept(<<OP_KEY * 32>> \o NvmKey, 0, rep)
             ELSE IF which = <<"d", "e", "b", "u", "g">>
             THEN Accept(<<OP_KEY * 32>> \o DebugKey, 0, rep)
             ELSE Reject(PyStr("Invalid key specification for instruction"), rep)

\* _parse_command on the parts of a line that is not empty, with the session
\* repeat count rep.
ParseCommand(parts, rep) ==
    LET command == Lower(parts[1])
    IN  IF StartsWith(command, <<"l", "d", "s", ".">>) THEN ParseLds(parts, command, rep)
        ELSE IF StartsWith(command, <<"s", "t", "s", ".">>) THEN ParseSts(parts, command, rep)
        ELSE IF command = <<"l", "d">> THEN ParseLd(parts, rep)
        ELSE IF StartsWith(command, <<"l", "d", ".">>) THEN ParseLdSuffix(parts, command, rep)
        ELSE IF command = <<"s", "t">> THEN ParseSt(parts, rep)
        ELSE IF StartsWith(command, <<"s", "t", ".">>) THEN ParseStSuffix(parts, command, rep)
        ELSE IF command = <<"l", "d", "c", "s">> THEN ParseLdcs(parts, rep)
        ELSE IF command = <<"s", "t", "c", "s">> THEN ParseStcs(parts, rep)
        ELSE IF command = <<"r", "e", "p", "e", "a", "t">> THEN ParseRepeat(parts, rep)
        ELSE IF command = <<"k", "e", "y">> THEN ParseKey(parts, rep)
        ELSE Reject(PyStr("Invalid opcode"), rep)

\* ------------------------------------------------------ host: meta.py
\* to_int8
ToInt8(bytes) == bytes[1]

\* to_int32_be that takes the first byte as the low one.
ToInt32BEBad(bytes) ==
    NatToBits(bytes[1], 8) \o NatToBits(bytes[2], 8)
    \o NatToBits(bytes[3], 8) \o NatToBits(bytes[4], 8)

\* to_int32_be, as the 32 bits of the value, index 1 the least significant.
ToInt32BE(bytes) ==
    NatToBits(bytes[4], 8) \o NatToBits(bytes[3], 8)
    \o NatToBits(bytes[2], 8) \o NatToBits(bytes[1], 8)

HexChars == DecDigits \o HexLetters

\* format(n, '#x'): 0x and the hex digits of n, none of them padding.
RECURSIVE HexDigitsOf(_)
HexDigitsOf(n) ==
    IF n < 16 THEN <<HexChars[n + 1]>>
    ELSE Append(HexDigitsOf(n \div 16), HexChars[(n % 16) + 1])
FormatHex(n) == <<"0", "x">> \o HexDigitsOf(n)

\* format(idCode, '#010x') of a value of 32 bits: 0x and eight hex digits,
\* the high nibble first.
FormatHex32(bits) ==
    <<"0", "x">>
    \o [i \in 1 .. 8 |-> HexChars[BitsToNat(Slice(bits, 32 - 4 * i, 36 - 4 * i)) + 1]]

\* jedec_id and avr_idcode
JedecId == [id \in {31} |-> "Atmel"]
AvrIdCode ==
    [id \in {38466, 38722, 38724, 38978} |->
        CASE id = 38466 -> "ATXMega64A3U"
          [] id = 38722 -> "ATXMega128A3U"
          [] id = 38724 -> "ATXMega192A3U"
          [] id = 38978 -> "ATXMega256A3U"]

\* decode_device_id_code: id_hex, manufacturer, version and part; the part
\* is its name, or the hex text of the field when it has none.
DecodeDeviceIdCode(bytes) ==
    LET idWord == ToInt32BE(bytes)
        ver == BitsToNat(Slice(idWord, 28, 32))
        partId == BitsToNat(Slice(idWord, 12, 28))
        manId == BitsToNat(Slice(idWord, 1, 12))
    IN  [id_hex |-> FormatHex32(idWord),
         manufacturer |-> IF manId \in DOMAIN JedecId
                          THEN JedecId[manId] ELSE "INVALID",
         version |-> ver,
         part |-> IF partId \in DOMAIN AvrIdCode THEN AvrIdCode[partId] ELSE "",
         partHex |-> IF partId \in DOMAIN AvrIdCode THEN <<>> ELSE FormatHex(partId)]

\* The bytes decode_device_id_code is applied to here.
IdByte1 == {105, 25, 0, 255}
IdByte2 == {132, 100, 116, 0, 255}
IdByte3 == {32, 40, 64, 255}
IdByte4 == {63, 62, 0, 255}

\* No device identification decoded yet.
NoIdInfo ==
    [id_hex |-> <<>>, manufacturer |-> "", version |-> 0, part |-> "",
     partHex |-> <<>>]

IdInit ==
    /\ idPhase = "wait"
    /\ idBytes = <<0, 0, 0, 0>>
    /\ idInfo = NoIdInfo

\* The four bytes of an answer to Read-ID arrive.
IdRead(bytes) ==
    /\ idPhase = "wait"
    /\ idPhase' = "read"
    /\ idBytes' = bytes
    /\ idInfo' = idInfo

\* decode_device_id_code(bytes)
IdDecode ==
    /\ idPhase = "read"
    /\ idPhase' = "decoded"
    /\ idInfo' = DecodeDeviceIdCode(idBytes)
    /\ idBytes' = idBytes

\* ------------------------------------------- host: _interactive_prompt
\* The words of the lines typed at the prompt.
WLdsU8 == <<"l", "d", "s", ".", "u", "8">>
WStsU8 == <<"s", "t", "s", ".", "u", "8">>
WStsU16 == <<"S", "T", "S", ".", "u", "1", "6">>
WLd == <<"l", "d">>
WLdU16 == <<"l", "d", ".", "u", "1", "6">>
WLdU64 == <<"l", "d", ".", "u", "6", "4">>
WSt == <<"s", "t">>
WStU8 == <<"s", "t", ".", "u", "8">>
WStU16 == <<"s", "t", ".", "u", "1", "6">>
WLdcs == <<"l", "d", "c", "s">>
WStcs == <<"s", "t", "c", "s">>
WRepeat == <<"r", "e", "p", "e", "a", "t">>
WKey == <<"k", "e", "y">>
WNop == <<"n", "o", "p">>
WExit == <<"e", "x", "i", "t">>

Commands == {WLdsU8, WStsU8, WStsU16, WLd, WLdU16, WLdU64, WSt, WStU8, WStU16,
             WLdcs, WStcs, WRepeat, WKey, WNop}

\* The arguments: 0, 2, 16, 0x1FF, a 0x without digits, *ptr, ctrl and nvm.
Words ==
    {<<"0">>, <<"2">>, <<"1", "6">>, <<"0", "x", "1", "F", "F">>, <<"0", "x">>,
     <<"*", "p", "t", "r">>, <<"c", "t", "r", "l">>, <<"n", "v", "m">>}

\* The argument lists: up to three words, a third word from a set of two.
ArgLists ==
    UNION {[1 .. n -> Words] : n \in 0 .. 2}
    \cup {a \o <<w>> : a \in [1 .. 2 -> Words], w \in {<<"2">>, <<"0", "x", "1", "F", "F">>}}

\* The lines _parse_command is given.
Lines == {<<c>> \o a : c \in Commands, a \in ArgLists}

\* The status bytes and identification values the device answers with.
StatusBytes == {0, 1, 2, 255}
IdAnswers == {<<105, 132, 32, 63>>}

\* No command parsed yet.
NoCommand == [t |-> "none", op |-> <<>>, reads |-> 0, msg |-> "", rep |-> Unset]

CliInit ==
    /\ cliPhase = "start"
    /\ cliLine = <<>>
    /\ cliRepeat = Unset
    /\ cliCommand = NoCommand
    /\ cliWritten = <<>>
    /\ cliHeaders = {}
    /\ cliStatus = -1
    /\ cliIdCode = NoIdInfo
    /\ cliLog = "none"

\* iface.write(data)
CliWrite(data) ==
    /\ cliWritten' = data
    /\ cliHeaders' = cliHeaders \cup {data[1]}

\* await iface.write([Header.Reset])
CliStart ==
    /\ cliPhase = "start"
    /\ cliPhase' = "reset"
    /\ CliWrite(<<HDR_Reset>>)
    /\ UNCHANGED <<cliLine, cliRepeat, cliCommand, cliStatus, cliIdCode, cliLog>>

\* The status byte is written before the session looks at it.
CliResetStatusBad(status) ==
    /\ cliPhase = "reset"
    /\ cliStatus' = status
    /\ cliPhase' = "idcode"
    /\ cliLog' = "Device reset complete"
    /\ CliWrite(<<HDR_IDCode>>)
    /\ UNCHANGED <<cliLine, cliRepeat, cliCommand, cliIdCode>>

\* The status byte of the reset is read: the session ends unless it is 1,
\* else it asks for the identification value.
CliResetStatus(status) ==
    /\ cliPhase = "reset"
    /\ cliStatus' = status
    /\ IF ToInt8(<<status>>) # 1
       THEN /\ cliPhase' = "ended"
            /\ cliLog' = "Failed to reset target, aborting"
            /\ UNCHANGED <<cliWritten, cliHeaders>>
       ELSE /\ cliPhase' = "idcode"
            /\ cliLog' = "Device reset complete"
            /\ CliWrite(<<HDR_IDCode>>)
    /\ UNCHANGED <<cliLine, cliRepeat, cliCommand, cliIdCode>>

\* The four bytes of the identification value are read and decoded.
CliIdCode(bytes) ==
    /\ cliPhase = "idcode"
    /\ cliIdCode' = DecodeDeviceIdCode(bytes)
    /\ cliLog' = "Begining PDI session with device, type 'exit' to leave"
    /\ cliPhase' = "loop"
    /\ UNCHANGED <<cliLine, cliRepeat, cliCommand, cliWritten, cliHeaders, cliStatus>>

\* The top of the loop: the prompt is printed; what the last line left in
\* response, command and result is dead from here on.
CliPrompt ==
    /\ cliPhase = "loop"
    /\ cliPhase' = "prompt"
    /\ cliLine' = <<>>
    /\ cliCommand' = NoCommand
    /\ cliWritten' = <<>>
    /\ cliLog' = "none"
    /\ UNCHANGED <<cliRepeat, cliHeaders, cliStatus, cliIdCode>>

\* stdin.readline().strip(): an empty line, exit, or a line to parse.
CliReadLine(line) ==
    /\ cliPhase = "prompt"
    /\ cliLine' = line
    /\ cliPhase' = IF line = <<>> THEN "loop"
                   ELSE IF line = <<WExit>> THEN "ended"
                   ELSE "parse"
    /\ UNCHANGED <<cliRepeat, cliCommand, cliWritten, cliHeaders, cliStatus,
                   cliIdCode, cliLog>>

\* command = self._parse_command(response) and what the loop does with it:
\* a message is logged, anything else is written after the PDI header.
CliCommand ==
    /\ cliPhase = "parse"
    /\ LET command == ParseCommand(cliLine, cliRepeat)
       IN  /\ cliCommand' = command
           /\ cliRepeat' = command.rep
           /\ IF command.t = "raise"
              THEN /\ cliPhase' = "raised"
                   /\ UNCHANGED <<cliWritten, cliHeaders, cliLog>>
              ELSE IF command.t = "str"
              THEN /\ cliPhase' = "loop"
                   /\ cliLog' = command.msg
                   /\ UNCHANGED <<cliWritten, cliHeaders>>
              ELSE /\ cliPhase' = "result"
                   /\ CliWrite(<<HDR_PDI>> \o command.op)
                   /\ UNCHANGED cliLog
    /\ UNCHANGED <<cliLine, cliStatus, cliIdCode>>

\* The answer to the command is read and logged.
CliResult ==
    /\ cliPhase = "result"
    /\ cliPhase' = "loop"
    /\ cliLog' = "Recieved"
    /\ UNCHANGED <<cliLine, cliRepeat, cliCommand, cliWritten, cliHeaders,
                   cliStatus, cliIdCode>>

\* ------------------------------------ host: the stream decoder on its own
\* The streams the decoder is given on its own: records a sniffer writes for
\* bus traffic, an identification record or a PDI header with an opcode byte
\* and the data bytes it counts.  Count bytes are taken from CountBytes, an LD
\* or ST comes with a repeat count of at most MaxRep.
VcdOpcodes == {0, 5, 32, 33, 64, 68, 96, 97, 128, 160, 161, 163, 192, 224}
VcdIdBytes == {0, 105}

VcdStream(byte) ==
    CASE VcdExpects(vcd) = "header" -> byte \in {HDR_IDCode, HDR_PDI}
      [] VcdExpects(vcd) = "idcode" -> byte \in VcdIdBytes
      [] VcdExpects(vcd) = "opcode" ->
            /\ byte \in VcdOpcodes
            /\ (byte \div 32) % 8 \in {OP_LD, OP_ST}
                  => Len(vcd.repCount) <= 1 /\ PyValue(vcd.repCount) <= MaxRep
      [] OTHER -> IF vcd.pdiInsn = OP_REPEAT THEN byte \in CountBytes
                  ELSE byte = DataByte

VcdFeed(byte) == VcdStream(byte) /\ VcdRead(byte)

\* ---------------------------------------------------------- specifications
vars == <<snVars, hsVars, cliVars, idVars, vcVars, dcVars, drvVars, dsVars, rtVars>>

\* The observer TAP alone, fed every TMS and TDI sequence.
\* The parts a specification does not run start at rest and stay there.
RtRest ==
    /\ rtSize = 1 /\ rtValue = 0 /\ rtPhase = "encode" /\ rtBytes = <<>>
    /\ rtSent = 0 /\ rtAcc = 0 /\ rtCount = 0 /\ rtTwice = 0
DcRest == DcInit /\ dcInsn = 0 /\ dcArgs = 0 /\ dcRep = 0

DrvRest == DrvInit /\ tgtId = <<63, 32, 132, 105>>

InitTap == SnInit /\ HsInit /\ CliInit /\ IdInit /\ VcInit /\ DcRest /\ DrvRest /\ DsInit /\ RtRest
NextTap == (\E tms \in {0, 1}, tdi \in {0, 1} :
                /\ snShiftDR = 1 => tdi = 0
                /\ SnifferClock(tms, tdi, 0))
             /\ UNCHANGED <<hsVars, cliVars, idVars, vcVars, dcVars, drvVars, dsVars, rtVars>>
SpecTap == InitTap /\ [][NextTap]_vars

\* The observer TAP on the pins of the bench.
InitScan == SnInit /\ HsInit /\ CliInit /\ IdInit /\ VcInit /\ DcRest /\ DrvRest /\ DsInit /\ RtRest
NextScan ==
    \/ (\E op \in BenchOps : HsIssue(op))
          /\ UNCHANGED <<cliVars, idVars, vcVars, dcVars, drvVars, dsVars, rtVars>>
    \/ HsEdge /\ UNCHANGED <<cliVars, idVars, vcVars, dcVars, drvVars, dsVars, rtVars>>
SpecScan == InitScan /\ [][NextScan]_vars

\* The host-side count decode over its inputs.
InitDecode == DcInit /\ SnInit /\ HsInit /\ CliInit /\ IdInit /\ VcInit /\ DrvRest /\ DsInit /\ RtRest
NextDecode == (DcDecode \/ DcNewInput)
                /\ UNCHANGED <<snVars, hsVars, cliVars, idVars, vcVars, drvVars, dsVars, rtVars>>
SpecDecode == InitDecode /\ [][NextDecode]_vars

\* The interactive subtarget: the host queues bytes at any time and the sync
\* clock ticks.
Init == SnInit /\ HsInit /\ CliInit /\ IdInit /\ VcInit /\ DcRest /\ DrvInit /\ DsInit /\ RtRest
Next ==
    \/ HostReset
    \/ \E h \in {HDR_IDCode, HDR_PDI} : HostHeader(h)
    \/ \E op \in Opcodes : HostOpcode(op)
    \/ \E d \in DataBytes : HostData(d)
    \/ Tick
Spec == Init /\ [][Next]_vars

\* The clock never stops.
FairSpec == Spec /\ WF_vars(Tick)

\* The observer codec, fed every sequence of captured units.
InitObserver == SnInit /\ HsInit /\ CliInit /\ IdInit /\ VcInit /\ DcRest /\ DrvRest /\ DsInit /\ RtRest
NextObserver ==
    \/ (\E b \in ObsBytes \cup CountBytes \cup {DataByte}, side \in {"none", "in", "out"}, k \in FlipBits :
            DsUnit(b, side, k)) /\ UNCHANGED <<hsVars, cliVars, idVars, vcVars, dcVars, drvVars, rtVars>>
    \/ DsStep /\ UNCHANGED <<hsVars, cliVars, idVars, vcVars, dcVars, drvVars, rtVars>>
SpecObserver == InitObserver /\ [][NextObserver]_vars

\* The host's repeat count, encoded, accumulated and reversed.
InitRepeat == SnInit /\ HsInit /\ CliInit /\ IdInit /\ VcInit /\ DcRest /\ DrvRest /\ DsInit /\ RtInit
NextRepeat ==
    (RtEncode \/ RtByte \/ RtTwice) /\ UNCHANGED <<snVars, hsVars, cliVars, idVars, vcVars, dcVars, drvVars, dsVars>>
SpecRepeat == InitRepeat /\ [][NextRepeat]_vars

\* The interactive session of the host.
InitPrompt ==
    SnInit /\ HsInit /\ CliInit /\ IdInit /\ VcInit /\ DcRest /\ DrvRest /\ DsInit /\ RtRest
NextPrompt ==
    /\ \/ CliStart
       \/ \E status \in StatusBytes : CliResetStatus(status)
       \/ \E bytes \in IdAnswers : CliIdCode(bytes)
       \/ CliPrompt
       \/ \E line \in Lines \cup {<<>>, <<WExit>>} : CliReadLine(line)
       \/ CliCommand
       \/ CliResult
    /\ UNCHANGED <<snVars, hsVars, idVars, vcVars, dcVars, drvVars, dsVars, rtVars>>
SpecPrompt == InitPrompt /\ [][NextPrompt]_vars

\* decode_device_id_code on the four bytes of an answer.
\* The sniffer with the host's stream decoder behind it: captures with valid
\* parity, PDI units and identification values, every byte the subtarget
\* writes being decoded by _write_pdi_vcd.
InitStream ==
    SnInit /\ HsInit /\ CliInit /\ IdInit /\ VcInit /\ DcRest /\ DrvRest /\ DsInit /\ RtRest
NextStream ==
    \/ (\E b \in ObsBytes \cup StreamBytes \cup CountBytes \cup {DataByte} :
            DsUnit(b, "none", 0))
            /\ HostTakes
            /\ UNCHANGED <<hsVars, cliVars, idVars, dcVars, drvVars, rtVars>>
    \/ DsStep /\ HostTakes
            /\ UNCHANGED <<hsVars, cliVars, idVars, dcVars, drvVars, rtVars>>
    \/ (\E id \in IdCodes : DsIdCode(id)) /\ HostTakes
            /\ UNCHANGED <<hsVars, cliVars, idVars, dcVars, drvVars, rtVars>>
SpecStream == InitStream /\ [][NextStream]_vars

\* The stream decoder alone, fed well-formed streams.
InitVcd ==
    SnInit /\ HsInit /\ CliInit /\ IdInit /\ VcInit /\ DcRest /\ DrvRest /\ DsInit /\ RtRest
NextVcd ==
    \E byte \in 0 .. 255 :
        /\ VcdFeed(byte)
        /\ UNCHANGED <<snVars, hsVars, cliVars, idVars, dcVars, drvVars, dsVars, rtVars>>
SpecVcd == InitVcd /\ [][NextVcd]_vars

InitIdCode ==
    SnInit /\ HsInit /\ CliInit /\ IdInit /\ VcInit /\ DcRest /\ DrvRest /\ DsInit /\ RtRest
NextIdCode ==
    /\ \/ \E b1 \in IdByte1, b2 \in IdByte2, b3 \in IdByte3, b4 \in IdByte4 :
             IdRead(<<b1, b2, b3, b4>>)
       \/ IdDecode
    /\ UNCHANGED <<snVars, hsVars, cliVars, vcVars, dcVars, drvVars, dsVars, rtVars>>
SpecIdCode == InitIdCode /\ [][NextIdCode]_vars

\* ------------------------------------------------------------------ claims
\* The transition table of spec section 4.1: successor on TMS 0 and on TMS 1.
Ieee1149 ==
    [s \in {"RESET", "IDLE", "SELECT-DR", "CAPTURE-DR", "SHIFT-DR", "EXIT1-DR",
            "PAUSE-DR", "EXIT2-DR", "UPDATE-DR", "SELECT-IR", "CAPTURE-IR",
            "SHIFT-IR", "EXIT1-IR", "PAUSE-IR", "EXIT2-IR", "UPDATE-IR"} |->
        CASE s = "RESET"      -> <<"IDLE", "RESET">>
          [] s = "IDLE"       -> <<"IDLE", "SELECT-DR">>
          [] s = "SELECT-DR"  -> <<"CAPTURE-DR", "SELECT-IR">>
          [] s = "CAPTURE-DR" -> <<"SHIFT-DR", "EXIT1-DR">>
          [] s = "SHIFT-DR"   -> <<"SHIFT-DR", "EXIT1-DR">>
          [] s = "EXIT1-DR"   -> <<"PAUSE-DR", "UPDATE-DR">>
          [] s = "PAUSE-DR"   -> <<"PAUSE-DR", "EXIT2-DR">>
          [] s = "EXIT2-DR"   -> <<"SHIFT-DR", "UPDATE-DR">>
          [] s = "UPDATE-DR"  -> <<"IDLE", "SELECT-DR">>
          [] s = "SELECT-IR"  -> <<"CAPTURE-IR", "RESET">>
          [] s = "CAPTURE-IR" -> <<"SHIFT-IR", "EXIT1-IR">>
          [] s = "SHIFT-IR"   -> <<"SHIFT-IR", "EXIT1-IR">>
          [] s = "EXIT1-IR"   -> <<"PAUSE-IR", "UPDATE-IR">>
          [] s = "PAUSE-IR"   -> <<"PAUSE-IR", "EXIT2-IR">>
          [] s = "EXIT2-IR"   -> <<"SHIFT-IR", "UPDATE-IR">>
          [] s = "UPDATE-IR"  -> <<"IDLE", "SELECT-DR">>]

\* C1: after every TCK edge the observer TAP is in the state the spec's
\* transition table gives for the state before the edge and the TMS bit
\* sampled, whatever TDI, the latched instruction and the shift flags are;
\* and the run RESET + TMS 0,1,1,0,0,0,1,1 has entered UPDATE-IR exactly once
\* and UPDATE-DR never.
C1_TapTable ==
    /\ snPrev # "none" => snState = Ieee1149[snPrev][snTms + 1]
    /\ snTrace = <<0, 1, 1, 0, 0, 0, 1, 1>> => snVisIR = 1 /\ snVisDR = 0

\* C1 witness: the eight-bit run of the claim has been fed and ended in
\* UPDATE-IR.
C1_Witness ==
    snTrace = <<0, 1, 1, 0, 0, 0, 1, 1>> /\ snState = "UPDATE-IR"

\* The count table of spec section 4.2 as (readCount, writeCount).
SpecCounts(op, sizeA, sizeB, R) ==
    CASE op = 0 -> <<sizeB, sizeA>>
      [] op = 1 -> <<sizeB * (R + 1), 0>>
      [] op = 2 -> <<0, sizeA + sizeB>>
      [] op = 3 -> <<0, sizeB * (R + 1)>>
      [] op = 4 -> <<1, 0>>
      [] op = 6 -> <<0, 1>>
      [] op = 5 -> <<0, sizeB>>
      [] op = 7 -> <<0, 8>>

\* C2: _decode_counts returns the spec table's (readCount, writeCount) for
\* every opcode, size fields and repeat count, sizeA = bits[3:2]+1 and
\* sizeB = bits[1:0]+1.
C2_DecodeCounts ==
    dcResult # <<>> =>
        dcResult = SpecCounts(dcInsn, Bit(dcArgs, 2) + 2 * Bit(dcArgs, 3) + 1,
                              Bit(dcArgs, 0) + 2 * Bit(dcArgs, 1) + 1, dcRep)

\* C2 witness: an LD with sizeB 2 under repeat count 3 decoded to 8 reads.
C2_Witness ==
    dcInsn = OP_LD /\ dcArgs = 1 /\ dcRep = 3 /\ dcResult = <<8, 0>>

\* The counts the spec table gives for the opcode byte of the transaction
\* in flight.
TableReads == SpecCounts(CmdOpcode, CmdSizeA, CmdSizeB, repCount)[1]
TableWrites == SpecCounts(CmdOpcode, CmdSizeA, CmdSizeB, repCount)[2]

\* C3: when the command scan of a PDI transaction ends and the codec picks
\* its next phase from the counters, the write and read counters are the
\* spec table's counts for the opcode byte the adapter issued, whatever
\* transactions came before.
C3_CountersFromTable ==
    (pdiState = "SEND-CMD" /\ JtagFsm.pdiReady) =>
        (writeCount = TableWrites /\ readCount = TableReads)

\* C4: at the end of the DR scan of a write slot the eight data bits put on
\* the bus, least significant first, are the byte the adapter took from the
\* host for that slot.
C4_WriteByteOnBus ==
    (pdiState = "WAIT-DATA" /\ jtagState = "UPDATE-DR" /\ Len(busUnit) = 9) =>
        BitsToNat(SubSeq(busUnit, 1, 8)) = txByte

\* C5: a transaction whose opcode has a non-zero read count, once all its
\* write bytes are taken, leads to the adapter back in IDLE with exactly
\* that many bytes returned to the host.
C5_ReadCompletes ==
    (adState = "HANDLE-PDI" /\ pdiState # "IDLE" /\ TableReads # 0
        /\ txBytes = TableWrites)
    ~> (adState = "IDLE" /\ Len(in_fifo) = TableReads)

\* C6: a transaction whose opcode has read count 0 never enters the read
\* phase, it completes on the scan numbered 1 + writeCount (txScans counts
\* the scans that ended before this cycle) with the write counter at 0, and
\* nothing is written to the host for it.
C6_WriteOnlyCompletes ==
    (adState = "HANDLE-PDI" /\ TableReads = 0) =>
        /\ pdiState # "RECV-DATA"
        /\ in_fifo = <<>>
        /\ PdiFsm(JtagFsm.pdiReady).complete =>
               (txScans + 1 = 1 + TableWrites /\ writeCount = 0)

\* C7: within a transaction the data scans started never exceed the host
\* bytes taken, the bytes taken never exceed the write slots reached, and at
\* most one slot is waiting for its byte: needData is up exactly while the
\* slot reached last has no byte yet.
C7_Handshake ==
    /\ txIssued <= txBytes
    /\ txBytes <= txNeeds
    /\ txNeeds <= txBytes + 1
    /\ needData <=> (txNeeds = txBytes + 1)

\* C7 witness: the second write slot of a transaction got its byte and its
\* scan is under way.
C7_Witness ==
    txBytes = 2 /\ txIssued = 2 /\ txNeeds = 2 /\ pdiState = "WAIT-DATA"

\* C8: when the adapter answers a Reset header, the driver has just emitted
\* at least 5 TMS-high steps in a row and is emitting the TMS-low step.
C8_ResetSequence ==
    (adState = "WAIT-RESET" /\ JtagFsm.resetComplete) =>
        (tmsHighRun >= 5 /\ JtagFsm.tms = 0)

\* C9: the adapter never hands a Reset header byte to the codec as the data
\* byte of a PDI transaction.
C9_ResetNotData ==
    pdiDataOut # HDR_Reset

\* C10: whenever the adapter is back in IDLE after answering a Reset, the
\* driver TAP is in IDLE, its latched instruction is the one the first Reset
\* left, and the answer is the single status byte 1; so for every Reset in a
\* row and after every other transaction.
C10_ResetIdempotent ==
    (adState = "IDLE" /\ header = HDR_Reset) =>
        (jtagState = "IDLE" /\ insn = firstResetInsn /\ in_fifo = <<1>>)

\* C10 witness: two Resets in a row answered after a Read-ID has completed.
C10_Witness ==
    /\ adState = "IDLE" /\ header = HDR_Reset /\ resetRun = 2
    /\ idCode # Zeros(32) /\ in_fifo = <<1>>

\* The four bytes of the target's 32-bit identification value, most
\* significant byte first.
IdResponse == <<tgtId[4], tgtId[3], tgtId[2], tgtId[1]>>

\* C11: Read-ID.  Whatever 32-bit value the target shifts out, least significant
\* bit first, during the Read-ID data-register scan, the adapter answers an
\* IDCode header with exactly four bytes, that value most significant byte
\* first: while the response is being sent the bytes written so far are a
\* prefix of it, and once the adapter is back in IDLE they are all of it.
C11_ReadId ==
    header = HDR_IDCode =>
        /\ Len(in_fifo) <= 4
        /\ in_fifo = SubSeq(IdResponse, 1, Len(in_fifo))
        /\ adState = "IDLE" => in_fifo = IdResponse

C11_Witness ==
    /\ header = HDR_IDCode /\ adState = "IDLE"
    /\ in_fifo = <<128, 0, 0, 1>> /\ tgtId = <<1, 0, 0, 128>>

\* The data units the spec's table gives an LD or ST of sizeB bytes accepted
\* under repeat count R.
RepeatedUnits == DsSizeB * (obHeld + 1)

\* C12: the observer codec's repeat expansion.  In a run without parity error,
\* an LD (resp. ST) opcode accepted while the codec holds repeat count R has
\* exactly sizeB * (R + 1) of the following units taken as read (resp. write)
\* data before the opcode returns to IDLE: never more, the codec does not come
\* to rest before the last of them with the opcode gone, and when the opcode
\* is IDLE again the number taken is the product and the repeat count is 0.
C12_RepeatExpansion ==
    (obErrs = 0 /\ obOp \in {OP_LD, OP_ST}) =>
        LET taken == IF obOp = OP_LD THEN obReads ELSE Len(obWritten)
            other == IF obOp = OP_LD THEN Len(obWritten) ELSE obReads
        IN  /\ other = 0
            /\ taken <= RepeatedUnits
            /\ dsOpcode = OP_IDLE => (taken = RepeatedUnits /\ dsRepCount = 0)
            /\ (DsQuiet /\ dsOpcode # OP_IDLE) =>
                    (dsOpcode = obOp /\ taken < RepeatedUnits)

C12_Witness ==
    /\ obErrs = 0 /\ obOp = OP_LD /\ obHeld = 1 /\ DsSizeB = 2
    /\ dsOpcode = OP_IDLE /\ obReads = 4 /\ dsRepCount = 0

\* C13: the observer codec's transaction lifecycle.  In a run without parity
\* error, whenever a data unit has brought the write and the read counter to
\* 0 and either the repeat count is 0 or the opcode is neither LD nor ST, the
\* opcode is IDLE again once the unit is handled, so that the next unit is
\* decoded as a fresh opcode; this includes a REPEAT followed by an opcode
\* other than LD/ST and a REPEAT followed by a REPEAT.
C13_Lifecycle ==
    (obErrs = 0 /\ obDone /\ dsState = "IDLE") => dsOpcode = OP_IDLE

\* C14: the observer codec's REPEAT capture.  In a run without parity error,
\* once the N count bytes of a REPEAT (N = 1..4) have been taken and
\* UPDATE-REPEAT is over, the captured repeat count is the count those bytes
\* stand for with the first byte on the wire least significant, the bytes
\* above the N-th zero (count bytes 0x01, 0x00 of a two byte REPEAT give 1).
C14_RepeatCapture ==
    (/\ obErrs = 0 /\ obOp = OP_REPEAT /\ Len(obWritten) = DsSizeB
     /\ dsState = "IDLE" /\ dsInsnState = "IDLE")
        => dsRepCount = WireCount(obWritten)

\* The repeat count the host encoded in the count bytes of the REPEAT it just
\* sent; every data byte the host sends is the same, so the last one taken
\* stands for each of them.
HostCount == WireCount([k \in 1 .. CmdSizeB |-> txByte])

\* C15: the driver codec's REPEAT capture.  Once a REPEAT transaction sent
\* through the adapter has completed (all its count bytes taken, the adapter
\* back in IDLE), the driver codec's repeat count is the count R those bytes
\* encode, ready to make a following LD or ST transfer sizeB * (R + 1) bytes.
C15_DriverRepeat ==
    (/\ adState = "IDLE" /\ header = HDR_PDI /\ CmdOpcode = OP_REPEAT
     /\ txBytes = CmdSizeB)
        => (repCount = HostCount /\ insnState = "IDLE")

\* C16: the host's REPEAT round trip.  For N in 1..4 and a count n below
\* 256^N, accumulating the bytes of _to_bytes(N, n) in wire order with
\* acc = (acc << 8) | byte and applying _reverse_count(acc, N) gives n back,
\* and _reverse_count applied twice with the same N gives n back.
C16_RoundTrip ==
    /\ rtPhase \in {"decoded", "done"} => rtCount = rtValue
    /\ rtPhase = "done" => rtTwice = rtValue

C16_Witness ==
    /\ rtPhase = "done" /\ rtSize = 4 /\ rtValue = 2130771713
    /\ rtBytes = <<1, 255, 0, 127>> /\ rtAcc = 33489023
    /\ rtCount = rtValue /\ rtTwice = rtValue

\* C17: the driver codec's parity generation.  Every unit the driver codec
\* hands to the TAP is nine bits, eight data bits and in bit 8 the XOR of
\* those eight, so that the XOR of all nine is 0: the parity bit is 0 for the
\* byte 0xC0 and 1 for the byte 0xFD.
C17_DriverParity ==
    tapIssue =>
        /\ tapDataOut \in 0 .. 511
        /\ Bit(tapDataOut, 8) = Xor8(tapDataOut % 256)
        /\ Xor9(tapDataOut) = 0
        /\ (tapDataOut % 256 = 192) => Bit(tapDataOut, 8) = 0
        /\ (tapDataOut % 256 = 253) => Bit(tapDataOut, 8) = 1

C17_Witness ==
    tapIssue /\ tapDataOut = 509 /\ jtagState = "SHIFT-DR" /\ txScans = 2

\* Every single-bit flip of every valid unit has odd parity.
FlipsDetected ==
    \A b \in 0 .. 255 : \A k \in 0 .. 8 :
        Xor9(Unit(b)) = 0 /\ Xor9(Flip(Unit(b), k)) = 1

\* C18: the observer codec's parity detection.  Each captured unit is checked
\* on the side expected (the TDI side while the opcode is IDLE or write bytes
\* remain, the TDO side otherwise): it goes to PARITY-ERROR exactly when the
\* XOR of its nine bits is not 0, PARITY-ERROR raises error and neither ready
\* nor sendHeader, and once the unit is handled the opcode is IDLE and nothing
\* was written to the FIFO for it.  Every single-bit flip of a valid unit is
\* such a unit.
C18_ParityDetected ==
    LET side == IF dsOpcode = OP_IDLE \/ dsWriteCount # 0
                THEN dsDataIn ELSE dsDataOut
        P    == DsPdiFsm(FALSE)
    IN  /\ FlipsDetected
        /\ dsState \in {"HANDLE-WRITE", "HANDLE-READ", "PARITY-ERROR"} =>
                (Xor9(side) # 0 <=> dsState = "PARITY-ERROR")
        /\ dsState = "PARITY-ERROR" =>
                (P.error /\ ~P.ready /\ ~P.sendHeader /\ P.opcode = OP_IDLE)
        /\ (obError /\ dsState = "IDLE") =>
                (dsOpcode = OP_IDLE /\ sfStream = <<>> /\ sfState = "IDLE")
        /\ (P.error \/ obError) => obFlips > 0

C18_Witness ==
    /\ obError /\ dsState = "IDLE" /\ dsOpcode = OP_IDLE /\ obOp = OP_LD
    /\ obReads = 1 /\ Xor9(dsDataOut) = 1 /\ sfStream = <<>>

\* C19: the observer codec's parity recovery.  After a parity error on any
\* unit of a transaction, a REPEAT count byte included, the next valid unit is
\* decoded as a fresh opcode: once its decode has come to rest and before any
\* data unit, the opcode is the one it carries, the read and the write
\* counter are the spec table's counts for it, and the decode FSM is where
\* that opcode leaves it, with nothing of the aborted transaction left over.
C19_ParityRecovery ==
    (/\ obAfterErr /\ ~obAborted /\ DsQuiet
     /\ obReads = 0 /\ obWritten = <<>>)
        => /\ dsOpcode = obOp
           /\ dsReadCount = SpecCounts(obOp, DsSizeA, DsSizeB, 0)[1]
           /\ dsWriteCount = SpecCounts(obOp, DsSizeA, DsSizeB, 0)[2]
           /\ dsInsnState = IF obOp = OP_REPEAT THEN "CAPTURE-REPEAT" ELSE "IDLE"

\* C20: the driver codec's parity check.  When the driver codec is in the
\* read phase of a transaction and the unit the TAP received from the target
\* has wrong parity (the XOR of its nine bits is 1), the transaction is
\* aborted: the codec returns to IDLE and the host is sent the Error header
\* instead of data.
C20_DriverParityCheck ==
    (pdiState = "RECV-DATA" /\ Xor9(tapDataIn) = 1)
    ~> (pdiState = "IDLE" /\ in_fifo # <<>> /\ in_fifo[Len(in_fifo)] = HDR_Error)

\* The instruction the pending request needs: IDCODE for Read-ID, PDICOM for
\* a PDI transfer.
Required == IF idCodeIssue THEN TAP_idCode ELSE TAP_pdiCom
Requested == (idCodeIssue \/ tapIssue) /\ ~resetIssue
IrScan == {"SELECT-IR", "CAPTURE-IR", "SHIFT-IR", "EXIT-IR", "UPDATE-IR"}

\* C21: instruction switching in the driver.  For a Read-ID or PDI transfer
\* request the driver leaves SELECT-DR for SELECT-IR exactly when the
\* instruction it has latched differs from the one the request needs and for
\* CAPTURE-DR otherwise; it is in the IR-scan states only while the latched
\* instruction differs; and when the DR scan starts (CAPTURE-DR, and SHIFT-DR
\* on the target's side) the instruction latched by the driver and by the
\* target is the required one.
C21_InsnSwitch ==
    [][Requested =>
          /\ (jtagState = "SELECT-DR" /\ jtagState' # "SELECT-DR") =>
                jtagState' = IF insn = Required THEN "CAPTURE-DR" ELSE "SELECT-IR"
          /\ jtagState \in IrScan => insn # Required
          /\ jtagState \in {"CAPTURE-DR", "SHIFT-DR"} => insn = Required
          /\ jtagState = "SHIFT-DR" => tgtInsn = Required]_vars

C21_Witness ==
    /\ tapIssue /\ ~idCodeIssue /\ ~resetIssue /\ jtagState = "CAPTURE-DR"
    /\ insn = TAP_pdiCom /\ txScans >= 1

\* C23: the driver's reset default.  Whenever the driver TAP leaves RESET, at
\* power-up or for a Reset request, the instruction it records as latched is
\* IDCODE.
C23_DriverResetDefault ==
    [][(jtagState = "RESET" /\ jtagState' # "RESET") => insn' = TAP_idCode]_vars

\* C22: the observer's reset default.  Whenever the observer TAP has been in
\* RESET and has seen no UPDATE-IR since, its latched instruction is IDCODE in
\* every state outside RESET; so the UPDATE-DR of a data register scan made
\* right after a TAP reset raises idCodeReady and not pdiReady.
C22_ObserverResetDefault ==
    /\ (snFresh /\ snState # "RESET") => snInsn = TAP_idCode
    /\ (snFresh /\ snState = "UPDATE-DR") => (SnIdCodeReady /\ ~SnPdiReady)

\* C22 witness: the UPDATE-DR of a scan after a reset that followed the scan
\* of PDICOM into the instruction register (insnNext still holds it, and the
\* instruction column is only left through UPDATE-IR).
C22_Witness ==
    /\ snFresh /\ snState = "UPDATE-DR" /\ snInsnNext = TAP_pdiCom
    /\ snInsn = TAP_idCode /\ SnIdCodeReady

\* Bits hi down to lo of a 32 bit register, as a number.
TopBits(reg, lo, hi) == BitsToNat([i \in 1 .. (hi - lo + 1) |-> reg[lo + i]])

\* The 32 bits of the four bytes of an identification value, low byte first.
IdBits(bytes) == [i \in 1 .. 32 |-> Bit(bytes[((i - 1) \div 8) + 1], (i - 1) % 8)]

\* What the observer TAP publishes.
Published == <<snIdCode, snPdiDataIn, snPdiDataOut>>

\* C24: the observer's capture events.  On every TCK edge: a ready strobe is
\* raised only in UPDATE-DR; in UPDATE-DR the latched instruction alone
\* selects the report: under IDCODE idCodeReady alone is raised and idCode
\* takes all 32 bits of the TDO shift register, under PDICOM pdiReady alone is
\* raised and pdiDataIn and pdiDataOut take bits 31:23 of the TDI and the TDO
\* shift register, under any other instruction no strobe is raised; and what
\* is not reported keeps its value.  So the bench's 32 bit scan under IDCODE
\* publishes the identification value it shifted, and its 9 bit scan under
\* PDICOM the two units it shifted.
C24_CaptureEvents ==
    [][hsQueue # <<>> =>
         /\ (SnIdCodeReady \/ SnPdiReady) => snState = "UPDATE-DR"
         /\ snState # "UPDATE-DR" => Published' = Published
         /\ (snState = "UPDATE-DR" /\ snInsn = TAP_idCode) =>
               /\ SnIdCodeReady /\ ~SnPdiReady
               /\ snIdCode' = snDataOut
               /\ snPdiDataIn' = snPdiDataIn /\ snPdiDataOut' = snPdiDataOut
               /\ hsLast = "idcode" => snIdCode' = IdBits(BenchIdCode)
         /\ (snState = "UPDATE-DR" /\ snInsn = TAP_pdiCom) =>
               /\ SnPdiReady /\ ~SnIdCodeReady
               /\ snPdiDataIn' = TopBits(snDataIn, 23, 31)
               /\ snPdiDataOut' = TopBits(snDataOut, 23, 31)
               /\ snIdCode' = snIdCode
               /\ hsLast = "pdi" => <<snPdiDataIn', snPdiDataOut'>> \in BenchUnits
         /\ (snState = "UPDATE-DR" /\ snInsn \notin {TAP_idCode, TAP_pdiCom}) =>
               /\ ~SnIdCodeReady /\ ~SnPdiReady
               /\ Published' = Published]_vars

\* C24 witness: a run that read the identification value, scanned PDICOM in
\* and made a PDI scan; both reports stand.
C24_Witness ==
    /\ hsQueue = <<>> /\ hsLast = "pdi" /\ snInsn = TAP_pdiCom
    /\ snPdiDataIn = 417 /\ snPdiDataOut = 408
    /\ snIdCode = IdBits(BenchIdCode)

\* C24, second witness: a data register scan under BYPASS has come to its end
\* and nothing was published.
C24_WitnessBypass ==
    /\ hsQueue = <<>> /\ hsLast = "idcode" /\ snInsn = TAP_bypass
    /\ Published = <<Zeros(32), 0, 0>>

\* The pins of the TCK edge the bench is about to make.
PinTms == Head(hsQueue)[1]
PinTdi == Head(hsQueue)[2]
PinTdo == Head(hsQueue)[3]

\* C30: the observer's shifting.  On every TCK edge the data shift registers
\* take one bit each (TDI into dataIn, TDO into dataOut) if the TAP state at
\* that edge is SHIFT-DR, and keep their value in any other state; the
\* instruction shift register takes TDI if the state is SHIFT-IR and keeps
\* its value otherwise; whichever way the shift state was entered.
C30_ShiftExactly ==
    [][hsQueue # <<>> =>
         /\ snDataIn' = IF snState = "SHIFT-DR"
                        THEN Append(Tail(snDataIn), PinTdi) ELSE snDataIn
         /\ snDataOut' = IF snState = "SHIFT-DR"
                         THEN Append(Tail(snDataOut), PinTdo) ELSE snDataOut
         /\ snInsnNext' = IF snState = "SHIFT-IR"
                          THEN (snInsnNext \div 2) + 8 * PinTdi ELSE snInsnNext]_vars

\* The same for scans that are not paused: the shift state entered from the
\* capture state only.
C30_ShiftUnpaused ==
    [][(hsQueue # <<>> /\ hsLast # "paused") =>
         /\ snDataIn' = IF snState = "SHIFT-DR"
                        THEN Append(Tail(snDataIn), PinTdi) ELSE snDataIn
         /\ snDataOut' = IF snState = "SHIFT-DR"
                         THEN Append(Tail(snDataOut), PinTdo) ELSE snDataOut
         /\ snInsnNext' = IF snState = "SHIFT-IR"
                          THEN (snInsnNext \div 2) + 8 * PinTdi ELSE snInsnNext]_vars

\* The counts the codec decodes for an opcode byte under a repeat count:
\* <<readCount, writeCount>>.
CodecCounts(byte, repeats) == DecodeCounts(byte \div 32, byte % 16, repeats)

\* The command of a line: its first part, lower case, up to the suffix.
IsStore(line) ==
    \/ Lower(line[1]) = WSt
    \/ StartsWith(Lower(line[1]), <<"s", "t", ".">>)
    \/ StartsWith(Lower(line[1]), <<"s", "t", "s", ".">>)

\* C25: the mnemonic encoder produces valid opcode sequences.  For every line
\* _parse_command accepts, the bytes after the opcode byte are as many as the
\* writeCount the codec decodes for that opcode byte under the session repeat
\* count the line was parsed with, and the expected read count returned is
\* the codec's readCount.
C25_EncoderValid ==
    [][(cliPhase = "parse" /\ cliCommand'.t = "ok"
          /\ cliCommand'.op[1] # NotAByte) =>
         /\ Len(cliCommand'.op) - 1 = CodecCounts(cliCommand'.op[1], cliRepeat)[2]
         /\ cliCommand'.reads = CodecCounts(cliCommand'.op[1], cliRepeat)[1]]_vars

\* The same for the lines that are not stores (lds, ld, ld.<suffix>, ldcs,
\* stcs is a store of one byte and is included, repeat, key).
C25_LoadsValid ==
    [][(cliPhase = "parse" /\ cliCommand'.t = "ok"
          /\ cliCommand'.op[1] # NotAByte /\ ~IsStore(cliLine)) =>
         /\ Len(cliCommand'.op) - 1 = CodecCounts(cliCommand'.op[1], cliRepeat)[2]
         /\ cliCommand'.reads = CodecCounts(cliCommand'.op[1], cliRepeat)[1]]_vars

\* The words that are well-formed numbers, the register words that name a
\* Control/Status register or give an address up to 15, and the pointer words.
NumberWords == {<<"0">>, <<"2">>, <<"1", "6">>, <<"0", "x", "1", "F", "F">>}
RegisterWords == {<<"0">>, <<"2">>, <<"c", "t", "r", "l">>}
PointerWords == {<<"*", "p", "t", "r">>}

\* The command word of a line, lower case.
Cmd(line) == Lower(line[1])

\* The parts of a line that have to be numbers.
NumberParts(line) ==
    IF Cmd(line) \in {WLdsU8, WRepeat} THEN {2} \cap (1 .. Len(line))
    ELSE IF Cmd(line) \in {WStsU8, Lower(WStsU16)} THEN 2 .. Len(line)
    ELSE IF Cmd(line) \in {WSt, WStU8, WStU16, WStcs} THEN 3 .. Len(line)
    ELSE {}

\* A line with a wrong number of arguments for its command.
WrongCount(line) ==
    \/ Cmd(line) \in {WLdsU8, WLd, WLdU16, WLdcs, WRepeat, WKey} /\ Len(line) # 2
    \/ Cmd(line) \in {WStU8, WStU16, WStcs} /\ Len(line) # 3
    \/ Cmd(line) \in {WStsU8, Lower(WStsU16), WSt} /\ Len(line) < 2

MalformedNumber(line) == \E i \in NumberParts(line) : line[i] \notin NumberWords

InvalidRegister(line) ==
    Cmd(line) \in {WLdcs, WStcs} /\ Len(line) >= 2 /\ line[2] \notin RegisterWords

InvalidPointer(line) ==
    Cmd(line) \in {WLd, WLdU16, WSt, WStU8, WStU16} /\ Len(line) >= 2
    /\ line[2] \notin PointerWords

InvalidSuffix(line) == Cmd(line) = WLdU64

\* A data word that is a number of more than one byte.
DataParts(line) ==
    IF Cmd(line) \in {WStsU8, Lower(WStsU16), WSt, WStU8, WStU16, WStcs}
    THEN 3 .. Len(line) ELSE {}
OversizedData(line) ==
    \E i \in DataParts(line) : line[i] \in {<<"0", "x", "1", "F", "F">>}

InvalidLine(line) ==
    \/ WrongCount(line) \/ MalformedNumber(line) \/ InvalidRegister(line)
    \/ InvalidPointer(line) \/ InvalidSuffix(line) \/ OversizedData(line)
    \/ Cmd(line) = WNop

\* C26: validation errors are values.  For every line with a wrong argument
\* count, a malformed number, an invalid size suffix or pointer mode, or an
\* invalid register (a Control/Status address above 15 included),
\* _parse_command returns a message, the loop writes nothing to the device
\* for the line and goes on to the next prompt.
C26_ErrorsAreValues ==
    [][(cliPhase = "parse" /\ InvalidLine(cliLine)) =>
         /\ cliCommand'.t = "str"
         /\ cliWritten' = <<>> /\ cliHeaders' = cliHeaders
         /\ cliPhase' = "loop"]_vars

\* The same once __repeatCount has a value, for the lines whose register is
\* valid and whose numbers have digits.
C26_OtherErrors ==
    [][(cliPhase = "parse" /\ InvalidLine(cliLine) /\ cliRepeat # Unset
          /\ ~InvalidRegister(cliLine)
          /\ \A i \in 2 .. Len(cliLine) : cliLine[i] # <<"0", "x">>) =>
         /\ cliCommand'.t = "str"
         /\ cliWritten' = <<>> /\ cliHeaders' = cliHeaders
         /\ cliPhase' = "loop"]_vars

\* The same for the lines whose only fault is the register.
C26_RegisterErrors ==
    [][(cliPhase = "parse" /\ InvalidRegister(cliLine) /\ ~WrongCount(cliLine)
          /\ ~MalformedNumber(cliLine)) =>
         /\ cliCommand'.t = "str"
         /\ cliWritten' = <<>> /\ cliHeaders' = cliHeaders
         /\ cliPhase' = "loop"]_vars

\* The suffixed accesses, and the ones among them that are well formed.
Suffixed(line) == Cmd(line) \in {WLdU16, WStU8, WStU16}
WellFormed(line) == Suffixed(line) /\ ~InvalidLine(line)

\* The session repeat count: what the last repeat command left to be used,
\* nothing when there was none.
SessionRepeat == IF cliRepeat = Unset THEN 0 ELSE cliRepeat

\* C27: the repeat/suffix restriction.  A suffixed access (ld.<suffix> or
\* st.<suffix>) parsed while the session repeat count is not zero is rejected
\* with a message and nothing is written to the device; the same line parsed
\* while the repeat count is zero is accepted and written.
C27_RepeatSuffix ==
    [][(cliPhase = "parse" /\ Suffixed(cliLine)) =>
         /\ SessionRepeat # 0 =>
               /\ cliCommand'.t = "str" /\ cliPhase' = "loop"
               /\ cliWritten' = <<>> /\ cliHeaders' = cliHeaders
         /\ (SessionRepeat = 0 /\ WellFormed(cliLine)) =>
               /\ cliCommand'.t = "ok" /\ cliPhase' = "result"
               /\ cliWritten' = <<HDR_PDI>> \o cliCommand'.op]_vars

\* The same from the first repeat command of the session on.
C27_AfterRepeat ==
    [][(cliPhase = "parse" /\ Suffixed(cliLine) /\ cliRepeat # Unset) =>
         /\ cliRepeat # 0 =>
               /\ cliCommand'.t = "str" /\ cliPhase' = "loop"
               /\ cliWritten' = <<>> /\ cliHeaders' = cliHeaders
         /\ (cliRepeat = 0 /\ WellFormed(cliLine)) =>
               /\ cliCommand'.t = "ok" /\ cliPhase' = "result"
               /\ cliWritten' = <<HDR_PDI>> \o cliCommand'.op]_vars

\* A suffixed store accepted after a repeat of zero.
C27_AfterRepeatWitness ==
    /\ cliPhase = "result" /\ cliLine = <<WStU16, <<"*", "p", "t", "r">>, <<"2">>>>
    /\ cliRepeat = 0 /\ cliCommand.t = "ok"

\* The two lower case hex digits of a byte, and the fields of the 32 bit
\* big-endian value of four bytes, by arithmetic on the bytes.
HexPair(b) == <<HexChars[(b \div 16) + 1], HexChars[(b % 16) + 1]>>
VersionField(bytes) == bytes[1] \div 16
PartField(bytes) == (bytes[1] % 16) * 4096 + bytes[2] * 16 + (bytes[3] \div 16)
ManufacturerField(bytes) == (((bytes[3] % 16) * 256 + bytes[4]) \div 2) % 2048

\* C28: the device identification decode.  For the four bytes of an answer,
\* decode_device_id_code returns the big-endian 32 bit value as 0x and eight
\* lower case hex digits, the version from bits 31:28, the part name looked
\* up by bits 27:12 (the hex text of the field when it has no name) and the
\* manufacturer looked up by the 11 bits 11:1 ('INVALID' when it has no
\* name); 0x69 0x84 0x20 0x3F gives 0x6984203f, Atmel, 6, ATXMega256A3U.
C28_IdDecode ==
    idPhase = "decoded" =>
        /\ idInfo.id_hex = <<"0", "x">> \o HexPair(idBytes[1]) \o HexPair(idBytes[2])
                           \o HexPair(idBytes[3]) \o HexPair(idBytes[4])
        /\ idInfo.version = VersionField(idBytes)
        /\ idInfo.part = CASE PartField(idBytes) = 38466 -> "ATXMega64A3U"
                           [] PartField(idBytes) = 38722 -> "ATXMega128A3U"
                           [] PartField(idBytes) = 38724 -> "ATXMega192A3U"
                           [] PartField(idBytes) = 38978 -> "ATXMega256A3U"
                           [] OTHER -> ""
        /\ idInfo.partHex = IF idInfo.part = "" THEN FormatHex(PartField(idBytes))
                            ELSE <<>>
        /\ idInfo.manufacturer = IF ManufacturerField(idBytes) = 31 THEN "Atmel"
                                 ELSE "INVALID"
        /\ idBytes = <<105, 132, 32, 63>> =>
              idInfo = [id_hex |-> <<"0", "x", "6", "9", "8", "4", "2", "0", "3", "f">>,
                        manufacturer |-> "Atmel", version |-> 6,
                        part |-> "ATXMega256A3U", partHex |-> <<>>]
        /\ idBytes = <<0, 0, 0, 255>> => idInfo.partHex = <<"0", "x", "0">>
        /\ idBytes = <<255, 255, 255, 255>> =>
              idInfo.partHex = <<"0", "x", "f", "f", "f", "f">>

\* C28 witness: the answer 0x69 0x84 0x20 0x3F has been decoded.
C28_Witness ==
    /\ idPhase = "decoded" /\ idBytes = <<105, 132, 32, 63>>
    /\ idInfo.part = "ATXMega256A3U" /\ idInfo.manufacturer = "Atmel"

\* C28, second witness: an answer with no known part and manufacturer.
C28_WitnessUnknown ==
    /\ idPhase = "decoded" /\ idBytes = <<255, 116, 40, 62>>
    /\ idInfo.part = "" /\ idInfo.manufacturer = "INVALID"
    /\ idInfo.partHex = <<"0", "x", "f", "7", "4", "2">>

\* C29: a failed reset is fatal.  Once the status byte of the initial Reset
\* has been read: if it is not 1 the session has ended and Reset is the only
\* header it ever wrote (no IDCode, no PDI); if it is 1 the session has gone
\* on and written the IDCode header.
C29_ResetFailureFatal ==
    /\ (cliPhase # "start" /\ cliPhase # "reset" /\ cliStatus # 1) =>
          /\ cliPhase = "ended"
          /\ cliHeaders = {HDR_Reset}
          /\ cliLog = "Failed to reset target, aborting"
    /\ (cliPhase # "start" /\ cliPhase # "reset" /\ cliStatus = 1) =>
          /\ HDR_IDCode \in cliHeaders
          /\ cliPhase = "idcode" => cliWritten = <<HDR_IDCode>>

\* C29 witness: the session has ended on the status byte 2.
C29_Witness ==
    /\ cliPhase = "ended" /\ cliStatus = 2 /\ cliHeaders = {HDR_Reset}
    /\ cliWritten = <<HDR_Reset>>

\* C29, second witness: after the status byte 1 the session has written a
\* PDI command.
C29_WitnessProceeds ==
    /\ cliPhase = "result" /\ cliStatus = 1
    /\ cliHeaders = {HDR_Reset, HDR_IDCode, HDR_PDI}

\* The width of the data register the latched instruction selects.
DrWidth == IF insn = TAP_pdiCom THEN 9 ELSE 32

\* The driver has taken its last step in SHIFT-DR and not yet left UPDATE-DR.
DrScanned == jtagState \in {"EXIT-DR", "UPDATE-DR"}

\* C31: in every data register scan the driver spends exactly as many steps
\* in SHIFT-DR as the latched instruction's register is wide: 32 for a
\* Read-ID scan (IDCODE), 9 for a PDI transfer (PDICOM).
C31_ShiftWidth == DrScanned => shiftSteps = DrWidth

\* The Read-ID half of C31: under IDCODE the scan has 32 steps in SHIFT-DR.
C31_ReadIdWidth == DrScanned /\ insn = TAP_idCode => shiftSteps = 32

\* The PDI scans as the driver makes them: dataCounter starts at 9 and the
\* step at 0 still shifts, ten steps in SHIFT-DR.
C31_PdiSteps == DrScanned /\ insn = TAP_pdiCom => shiftSteps = 10

\* The <<TMS, TDO>> pairs of an instruction scan of code: its four bits from
\* the least significant up, TMS high with the fourth.
IrPattern(code) ==
    [i \in 1 .. 4 |-> <<IF i = 4 THEN 1 ELSE 0, Bit(code, i - 1)>>]

\* C32: whenever the driver switches instruction it takes exactly four steps
\* in SHIFT-IR, on which it emits the four bits of the instruction the request
\* needs (0x3 for Read-ID, 0x7 for PDI), least significant first, TMS high on
\* the fourth only; it then passes EXIT-IR and UPDATE-IR, and after UPDATE-IR
\* the instruction it has latched is the required one.
C32_IrScan ==
    /\ jtagState \in {"CAPTURE-IR", "SHIFT-IR", "EXIT-IR", "UPDATE-IR"}
          => Requested
    /\ jtagState = "SHIFT-IR"
          => /\ Len(irBits) < 4
             /\ irBits = SubSeq(IrPattern(Required), 1, Len(irBits))
    /\ jtagState \in {"EXIT-IR", "UPDATE-IR"} => irBits = IrPattern(Required)
    /\ lastStep = "SHIFT-IR" => jtagState \in {"SHIFT-IR", "EXIT-IR"}
    /\ lastStep = "EXIT-IR" => jtagState = "UPDATE-IR"
    /\ lastStep = "UPDATE-IR"
          => Requested /\ jtagState = "SELECT-DR" /\ insn = Required

\* An instruction scan for a PDI transfer has emitted 1, 1, 1, 0 ...
C32_Witness ==
    /\ jtagState = "UPDATE-IR" /\ tapIssue
    /\ irBits = <<<<0, 1>>, <<0, 1>>, <<0, 1>>, <<1, 0>>>>

\* ... and one for Read-ID 1, 1, 0, 0, and IDCODE is latched after it.
C32_WitnessReadId ==
    /\ lastStep = "UPDATE-IR" /\ idCodeIssue /\ insn = TAP_idCode
    /\ jtagState = "SELECT-DR"

\* The completion signals of the TAP in the current cycle.
IdCodeReady == JtagFsm.idCodeReady
PdiReady == JtagFsm.pdiReady

\* The cycle is the jtag FSM's step in UPDATE-DR, taken one step after the
\* step that reached UPDATE-DR, the target being in UPDATE-DR too.
UpdateStep ==
    /\ mayUpdate /\ jtagState = "UPDATE-DR" /\ lastStep = "EXIT-DR"
    /\ tgtState = "UPDATE-DR"

\* C33: the driver raises idCodeReady (pdiReady) only in the step it takes in
\* UPDATE-DR, one step after reaching it, and only for a pending Read-ID (PDI
\* transfer) request; the request ends at the clock edge of that cycle and at
\* no other, so each request is signalled complete exactly once.
C33_Completion ==
    /\ [](IdCodeReady => UpdateStep /\ idCodeIssue)
    /\ [](PdiReady => UpdateStep /\ tapIssue /\ ~idCodeIssue)
    /\ [][tckTimer' # tckTimer =>
            /\ (idCodeIssue /\ ~idCodeIssue') <=> IdCodeReady
            /\ (tapIssue /\ ~tapIssue') <=> PdiReady]_vars

\* The second unit of a PDI transaction is being signalled complete ...
C33_Witness == PdiReady /\ txScans = 1

\* ... and so is a Read-ID that follows a PDI transaction.
C33_WitnessReadId == IdCodeReady /\ insn = TAP_idCode /\ hostSent >= 2

\* The state of the sixteen the driver's FSM stands for: its EXIT-DR and
\* EXIT-IR are the standard's EXIT1-DR and EXIT1-IR.
Believed(state) ==
    CASE state = "EXIT-DR" -> "EXIT1-DR"
      [] state = "EXIT-IR" -> "EXIT1-IR"
      [] OTHER             -> state

\* The driver has stepped and the TCK edge that clocks the TMS bit of the
\* step into the target is still to come.
EdgePending == tckState = "TCK-L" /\ ~mayUpdate

\* C34: the state the driver's FSM believes the target to be in is the state
\* an IEEE 1149.1 TAP (the observer's transition table) is in after the TMS
\* bits the driver has emitted, both starting in RESET; every step of the
\* driver moves its FSM as the table moves on the TMS bit of the step, so it
\* never stays where the table would move.
C34_TracksTap ==
    /\ Believed(jtagState) = IF EdgePending THEN SnTapNext(tgtState, busTms)
                             ELSE tgtState
    /\ mayUpdate => Believed(JtagFsm.next)
                        = SnTapNext(Believed(jtagState), JtagFsm.tms)

\* The driver and the target are in EXIT1-IR of the instruction scan of the
\* third request ...
C34_Witness ==
    /\ jtagState = "EXIT-IR" /\ tgtState = "EXIT1-IR" /\ hostSent = 3

\* ... and back in RESET on a Reset request made after a scan.
C34_WitnessReset ==
    /\ jtagState = "RESET" /\ tgtState = "RESET" /\ resetIssue
    /\ tgtInsn = TAP_pdiCom

\* The opcode field of a byte, and sizeB of its size field.
OpcodeOf(byte) == (byte \div 32) % 8
SizeBOf(byte) == (byte % 4) + 1

\* C36: the repeat count the stream decoder (_write_pdi_vcd) carries.  When
\* it decodes an LD or ST opcode byte the count becomes 0, the counts of the
\* transaction having been computed with the value it had; when it takes the
\* last count byte of a REPEAT the count becomes the value of the count bytes
\* of that REPEAT, the first on the wire the least significant (the reversal
\* of what it accumulated); every other byte (a header, a byte of an
\* identification record, the opcode and the data bytes of LDS, STS, LDCS,
\* STCS and KEY, the opcode byte of REPEAT) leaves it as it is.  Between the
\* first and the last count byte of a REPEAT it holds the accumulation.
C36_RepeatState ==
    [][LET expects == VcdExpects(vcd)
           byte == vcdByte'
       IN  CASE expects = "opcode" /\ OpcodeOf(byte) \in {OP_LD, OP_ST} ->
                    /\ vcd'.repCount = <<>>
                    /\ vcd'.readCount + vcd'.writeCount
                           = SizeBOf(byte) * (PyValue(vcd.repCount) + 1)
             [] expects = "data" /\ vcd.pdiInsn = OP_REPEAT ->
                    IF vcd.writeCount = 1
                    THEN /\ vcd'.repCount = Canon(vcdTaken')
                         /\ vcd'.operation = 0
                    ELSE vcd'.operation = HDR_PDI
             [] OTHER -> vcd'.repCount = vcd.repCount]_vars

\* A two byte REPEAT with count bytes 0x00, 0x01 has left the count 256 ...
C36_Witness ==
    /\ vcd.operation = 0 /\ vcd.pdiInsn = OP_REPEAT
    /\ vcdTaken = <<0, 1>> /\ vcd.repCount = <<0, 1>>

\* ... an LD of two bytes decoded with the count 2 reads six bytes and has
\* reset the count ...
C36_WitnessLd ==
    /\ vcd.pdiInsn = OP_LD /\ vcdByte = 33 /\ vcd.readCount = 6
    /\ vcd.repCount = <<>>

\* ... and an STS transaction has passed with the count 2 held.
C36_WitnessHeld ==
    /\ vcd.pdiInsn = OP_STS /\ vcd.operation = 0 /\ vcd.repCount = <<2>>

\* ---------------------------------------------------------------------------
\* C35  Sniffer stream framing.  When the codec has come to rest after a
\* capture, the bytes the subtarget wrote to the FIFO for that capture are:
\* the header 0x11 immediately followed by the opcode byte when the unit was
\* accepted as an opcode; the data byte alone, with no header, when the unit
\* was taken as write data (the TDI side) or as read data (the TDO side) of
\* the open transaction; and the header 0x10 followed by the four bytes of the
\* captured value, most significant first, for an identification capture.
\* While the subtarget is writing, what it has written is a prefix of that
\* record, so no header stays without payload and no payload comes without
\* the header that opened its transaction.
IdRecord ==
    <<HDR_IDCode, BitsToNat(Slice(snIdCode, 24, 32)),
      BitsToNat(Slice(snIdCode, 16, 24)), BitsToNat(Slice(snIdCode, 8, 16)),
      BitsToNat(Slice(snIdCode, 0, 8))>>
CaptureRecord ==
    CASE obKind = "opcode" -> <<HDR_PDI, dsDataIn % 256>>
      [] obKind = "write"  -> <<dsDataIn % 256>>
      [] obKind = "read"   -> <<dsDataOut % 256>>
      [] obKind = "idcode" -> IdRecord
      [] OTHER             -> <<>>
IsPrefix(s, t) == Len(s) <= Len(t) /\ \A i \in 1..Len(s) : s[i] = t[i]
C35_Framing ==
    /\ DsQuiet => sfStream = CaptureRecord
    /\ obKind \in {"opcode", "write", "read", "idcode"}
            => IsPrefix(sfStream, CaptureRecord)
    /\ obKind = "write" => obOp # OP_IDLE
C35_Witness ==
    /\ DsQuiet /\ obKind = "idcode" /\ sfStream = <<16, 105, 132, 32, 63>>
    /\ obUnits >= 2
C35_WitnessData ==
    /\ DsQuiet /\ obKind = "read" /\ sfStream = <<ReplyByte>>
    /\ obOp = OP_LD /\ obReads = 2 /\ obIds = 1

\* ---------------------------------------------------------------------------
\* C37  Counters never wrap.  In the observer's codec neither the write
\* counter nor the read counter is ever decremented at 0: neither ever holds
\* 0xFFFFFFFF (kept as -1 by Dec32).
C37_NoWrap == dsWriteCount >= 0 /\ dsReadCount >= 0

\* The same for the driver's codec, and for the observer's write counter
\* alone.
C37_DriverNoWrap == writeCount >= 0 /\ readCount >= 0
C37_WriteNoWrap == dsWriteCount >= 0

\* ---------------------------------------------------------------------------
\* C38  Failed commands leave the session unchanged.  Whenever _parse_command
\* returns an error message for a line, the session's pending repeat count is
\* the same after the call as before it.
C38_FailedKeepsRepeat ==
    [][cliPhase = "parse" /\ cliCommand'.t = "str" => cliRepeat' = cliRepeat]_vars

\* The same for every command but a plain ld or st.
C38_OtherKeepRepeat ==
    [][/\ cliPhase = "parse" /\ cliCommand'.t = "str"
       /\ Lower(cliLine[1]) \notin {WLd, WSt}
       => cliRepeat' = cliRepeat]_vars

\* ---------------------------------------------------------------------------
\* C39  Initial repeat count.  From the start of the interactive loop the
\* session repeat count is defined, and it is 0 until a command sets it: an
\* ld or st read before any repeat command finds the count 0.
C39_InitialRepeat ==
    cliPhase \in {"loop", "prompt", "parse"} => cliRepeat # Unset

\* A plain ld with a valid pointer, read before any repeat command, is
\* encoded as a single-iteration access with expected read count 1.
C39_FirstLd ==
    [][/\ cliPhase = "parse" /\ cliRepeat \in {Unset, 0}
       /\ cliLine = <<WLd, <<"*", "p", "t", "r">>>>
       => cliCommand'.t = "ok" /\ cliCommand'.reads = 1]_vars

\* ---------------------------------------------------------------------------
\* C40  Decoder and sniffer stay in step.  With valid parity on every unit,
\* whenever the subtarget writes a byte to the FIFO, the byte is a header
\* (the subtarget is in PDI-HEADER or IDCODE-HEADER) exactly when the host's
\* stream decoder, having taken every byte written before, is expecting a
\* header.
SfWritesHeader == sfState \in {"PDI-HEADER", "IDCODE-HEADER"}
C40_InStep ==
    SfWritten # -1 => (SfWritesHeader <=> VcdExpects(vcd) = "header")

\* In step as long as SEND-DATA has re-armed no opcode other than LD/ST and
\* UPDATE-REPEAT has loaded the count its bytes stand for.
C40_InStepProper == (~obRearmed /\ ~obMiscount) => C40_InStep

====
